---- MODULE Spec2Model ----
(***************************************************************************)
(* Model of the MyCodeBuddy code-generation pipeline:                      *)
(*   Agent/tools.py  - the session-bound workspace sandbox and event sink  *)
(*   Agent/graph.py  - planner_agent, architect_agent, coder_agent,        *)
(*                     should_continue and the graph wiring                *)
(*   api/main.py     - run_project and run_agent_background                *)
(*   test_agent.py   - the run of the graph with recursion_limit 10        *)
(* One worker per session runs the pipeline; the sandbox binding           *)
(* (_session_id, _event_emitter) is module-global state of tools.py.       *)
(***************************************************************************)
EXTENDS Integers, Sequences, FiniteSets, TLC

\* ------------------------------------------------------------------ bounds
MaxSteps == 2      \* longest TaskPlan explored
AgentCap == 1      \* tool calls the primary agent may make in one attempt
MaxInvoke == 4     \* coder_agent invocations a direct caller makes
MaxPathLen == 3    \* longest path, in segments, handed to a sandbox tool
MaxCalls == 2      \* sandbox tool calls a direct tool caller makes
MaxLongPlan == 9   \* longest TaskPlan the test script is given
MaxCrashes == 2
MaxTextLen == 5

\* --------------------------------------------------------------- constants
ErrorCursor == 999 \* cursor returned when no task_plan is found
ServerRecursionLimit == 100  \* recursion_limit of the server and of graph.py
ScriptRecursionLimit == 10   \* recursion_limit of test_agent.py

Sessions == {"A", "B"}

\* Optional values: None is the empty sequence, Some(v) a one-element one.
None == << >>
Some(v) == <<v>>

\* ----------------------------------------------------------------- content
\* A string is a sequence of tokens: FENCE stands for three backticks,
\* "x" for any other visible text, " " and NL for whitespace.
FENCE == "fence"
NL == "\n"
Whitespace == {" ", NL}
EmptyStr == << >>
HelloWorldTest == <<"h">>          \* the probe text "Hello World Test"
NoFile == <<"<absent>">>           \* marks a path with no file behind it
IsDir == <<"<dir>">>               \* marks a path that is a directory

RECURSIVE LStrip(_)
LStrip(s) ==
    IF s = << >> THEN s
    ELSE IF Head(s) \in Whitespace THEN LStrip(Tail(s)) ELSE s

RECURSIVE RStrip(_)
RStrip(s) ==
    IF s = << >> THEN s
    ELSE IF s[Len(s)] \in Whitespace THEN RStrip(SubSeq(s, 1, Len(s) - 1)) ELSE s

\* str.strip()
Strip(s) == RStrip(LStrip(s))

\* str.split on newline: a non-empty sequence of lines
RECURSIVE SplitNL(_, _)
SplitNL(s, cur) ==
    IF s = << >> THEN <<cur>>
    ELSE IF Head(s) = NL THEN <<cur>> \o SplitNL(Tail(s), << >>)
    ELSE SplitNL(Tail(s), Append(cur, Head(s)))

\* newline.join(lines)
RECURSIVE JoinNL(_)
JoinNL(lines) ==
    IF lines = << >> THEN << >>
    ELSE IF Len(lines) = 1 THEN lines[1]
    ELSE lines[1] \o <<NL>> \o JoinNL(Tail(lines))

StartsWithFence(s) == s # << >> /\ Head(s) = FENCE

\* variant: the fence test is made on the completion as it came, and
\* surrounding whitespace is kept
CleanFallbackNoStrip(text) ==
    LET content == text IN
    IF StartsWithFence(content)
    THEN LET lines0 == SplitNL(content, << >>)
             lines1 == IF StartsWithFence(lines0[1]) THEN Tail(lines0) ELSE lines0
             lines2 == IF lines1 # << >> /\ Strip(lines1[Len(lines1)]) = <<FENCE>>
                       THEN SubSeq(lines1, 1, Len(lines1) - 1) ELSE lines1
         IN JoinNL(lines2)
    ELSE content

\* graph.py 228-235: the clean-up of the fallback completion
CleanFallback(text) ==
    LET content == Strip(text) IN
    IF StartsWithFence(content)
    THEN LET lines0 == SplitNL(content, << >>)
             lines1 == IF StartsWithFence(lines0[1]) THEN Tail(lines0) ELSE lines0
             lines2 == IF lines1 # << >> /\ Strip(lines1[Len(lines1)]) = <<FENCE>>
                       THEN SubSeq(lines1, 1, Len(lines1) - 1) ELSE lines1
         IN JoinNL(lines2)
    ELSE content

\* ------------------------------------------------------------------- paths
\* A path is a sequence of segments; Cwd is the process working directory.
Cwd == <<"cwd">>
TestTxt == <<"test.txt">>
AppPy == <<"app.py">>
Escaping == <<"..", "evil.py">>
Dot == <<".">>

RECURSIVE Normalize(_, _)
Normalize(segs, acc) ==
    IF segs = << >> THEN acc
    ELSE IF Head(segs) = "." THEN Normalize(Tail(segs), acc)
    ELSE IF Head(segs) = ".."
         THEN Normalize(Tail(segs),
                        IF acc = << >> THEN acc ELSE SubSeq(acc, 1, Len(acc) - 1))
    ELSE Normalize(Tail(segs), Append(acc, Head(segs)))

\* pathlib.Path.resolve()
Resolve(p) == Normalize(p, << >>)

get_project_root(session_id) == Cwd \o <<"generated_project", session_id>>

IsPrefix(a, b) == Len(a) <= Len(b) /\ SubSeq(b, 1, Len(a)) = a

\* variant: the check is made against the directory that holds all projects
InsideProjectsDir(root, p) == IsPrefix(SubSeq(root, 1, Len(root) - 1), p)

\* tools.py 30: the root is an ancestor of p, or p's parent, or p itself
InsideRoot(root, p) == IsPrefix(root, p)

\* tools.py 27-32; None when the ValueError is raised
safe_path_for_project(path, session_id) ==
    LET project_root == get_project_root(session_id)
        p == Resolve(project_root \o path)
    IN IF InsideRoot(Resolve(project_root), p) THEN Some(p) ELSE None

\* ------------------------------------------------------- model-call outputs
StepPaths == {AppPy, Escaping}

\* the segments of the paths a direct tool caller passes: the parent
\* directory, a plain name, and the name of the root of the other session
Segments == {"..", "a", "B"}
\* what a direct tool caller writes
ToolContents == {<<"x">>, <<"y">>}

RECURSIVE SeqsUpTo(_, _)
SeqsUpTo(S, n) ==
    IF n = 0 THEN {<< >>}
    ELSE LET shorter == SeqsUpTo(S, n - 1)
         IN shorter \cup {Append(s, x) : s \in {t \in shorter : Len(t) = n - 1}, x \in S}

PlanFiles == {<< >>, <<AppPy>>}
Plans == {[name |-> "App", files |-> f] : f \in PlanFiles}
\* graph.py 53-55
ErrorPlan == [name |-> "Error", files |-> << >>]

\* what the model may write through the agent's write_file tool
AgentContents == {EmptyStr, <<" ">>, <<"x">>}
\* what the model may answer to the fallback request (content attribute)
Completions == {EmptyStr, <<" ">>, <<"x">>, <<FENCE, NL, "x", NL, FENCE>>, <<FENCE, NL, FENCE>>}

\* every completion of up to MaxTextLen tokens
CleanTexts == SeqsUpTo({FENCE, NL, "x", " "}, MaxTextLen)

\* --------------------------------------------------------------- task plans
\* An ImplementationTask is identified by its filepath.  A task_plan dict is
\* valid when TaskPlan(**data) accepts it (states.py 19-21).
TaskPlanData(steps, plan) ==
    [valid |-> TRUE, implementation_steps |-> steps, plan |-> plan]
InvalidTaskPlan ==
    [valid |-> FALSE, implementation_steps |-> << >>, plan |-> None]
StepLists == SeqsUpTo(StepPaths, MaxSteps)

\* CoderState.model_dump() (states.py 23-26)
CoderStateDump(tp, idx, cfc) ==
    [task_plan |-> tp, current_step_idx |-> idx, current_file_content |-> cfc]

\* the dict a node receives and the dict it returns (the graph's state is
\* the dict returned by the node that ran last)
\* cs_form: whether coder_state holds a dict or a CoderState object
StateDict(plan, tp, cstate) ==
    [plan |-> plan, task_plan |-> tp, coder_state |-> cstate, cs_form |-> "dict"]

\* a state dict whose coder_state is an in-memory CoderState object
ObjectState(tp, cstate) == [StateDict(None, tp, cstate) EXCEPT !.cs_form = "object"]

\* the plans of the test script: n steps, n up to MaxLongPlan
LongStepLists == {[i \in 1..n |-> AppPy] : n \in 0..MaxLongPlan}

\* the longest list of implementation_steps of the model
MaxPlanLen == IF MaxLongPlan > MaxSteps THEN MaxLongPlan ELSE MaxSteps

\* -------------------------------------------------------------------- state
VARIABLES
    g_session_id,      \* tools._session_id: None or Some(session)
    g_event_emitter,   \* tools._event_emitter: None or Some(owner session)
    fs,                \* resolved path -> content, NoFile when absent
    events,            \* history: file events handed to an emitter
    io_trace,          \* history: sandbox calls with the session they resolved under
    pc,                \* per worker: position in the pipeline
    driver,            \* per worker: "graph" (agent.invoke) or "direct" caller
    state,             \* per worker: the dict passed to the next node
    cs,                \* per worker: the local CoderState object
    loc,               \* per worker: locals of the running coder_agent call
    pend,              \* per worker: the emit_event call pending in write_file
    hist,              \* per worker: history of the running and past invocations
    tool,              \* per worker: the sandbox call a direct tool caller makes,
                       \* or the request a client of the file endpoints sends
    sessions           \* main.py 31: the session table, one record per session

vars == <<g_session_id, g_event_emitter, fs, events, io_trace,
          pc, driver, state, cs, loc, pend, hist, tool, sessions>>

\* the paths a direct tool caller passes, the empty path included
SandboxPaths == SeqsUpTo(Segments, MaxPathLen) \cup {Dot}

\* the paths a client of the file endpoints passes: a file of the project,
\* the project directory itself, files above it, and files of a directory
\* beside it whose name is the session id followed by more characters
SiblingDir == "A2"
EndpointPaths == {<<"a">>, << >>, <<"..", "a">>, <<"..", "..", "a">>,
                  <<SiblingDir, "a">>, <<"..", SiblingDir, "a">>}

\* every path a sandbox call or a request of the model can name, resolved
\* under either session root, with its ancestors
AllPaths == StepPaths \cup {TestTxt, Dot} \cup SandboxPaths \cup EndpointPaths
Prefixes(p) == {SubSeq(p, 1, n) : n \in 0..Len(p)}
FsPaths ==
    UNION {Prefixes(Resolve(get_project_root(s) \o p)) : s \in Sessions, p \in AllPaths}

\* the file system a run starts with: the working directory and its ancestors
InitFs == [q \in FsPaths |-> IF q \in Prefixes(Cwd) THEN IsDir ELSE NoFile]

\* tools.py 42: p.parent.mkdir(parents=True, exist_ok=True) on file system f;
\* None when a regular file is in the way
MkdirParents(f, p) ==
    LET parents == Prefixes(p) \ {p} IN
    IF \E q \in parents : f[q] \notin {NoFile, IsDir} THEN None
    ELSE Some([q \in FsPaths |-> IF q \in parents THEN IsDir ELSE f[q]])

NoLoc == [task |-> << >>, existing_content |-> EmptyStr, success |-> FALSE,
          test_content |-> None, file_exists_after_react |-> FALSE,
          resp |-> EmptyStr, turns |-> 0]
NoPend == [path |-> << >>, ret |-> "", err |-> ""]
NoCs == CoderStateDump(InvalidTaskPlan, 0, None)
\* no call made yet; last_write: the latest write_file call that returned
NoTool == [op |-> "none", path |-> << >>, content |-> EmptyStr, n |-> 0,
           ok |-> FALSE, err |-> "", val |-> EmptyStr, last_write |-> None]
\* a session that is not in the table
NoSession == [status |-> "none", error |-> None, result |-> None, notified |-> None]

\* reads, writes, emits: whether any happened; the others are counted
NoCalls == [reads |-> FALSE, writes |-> FALSE, emits |-> FALSE,
            primary |-> 0, fallback |-> 0, fallback_writes |-> 0]
Failures == {"existing_read", "primary", "verify_read", "fallback_llm", "fallback_write"}

\* history record of a worker
\*   kind: how the first state was made; entry: the state dict and cursor the
\*   running invocation received; attempts[i+1]: times steps[i] was selected;
\*   agent_wrote: the paths the primary agent wrote in the running invocation
NewHist(kind, done) ==
    [kind |-> kind, bound |-> FALSE, invocations |-> 0, entry_idx |-> 0,
     entry_state |-> None, stepping |-> FALSE,
     attempts |-> [i \in 1..MaxPlanLen |-> IF i <= done THEN 1 ELSE 0],
     calls |-> NoCalls, failed |-> {}, fallback_content |-> None,
     planner_failed |-> FALSE, architect_default |-> FALSE, target_absent |-> FALSE,
     emit_raised |-> {}, supersteps |-> 0, terminal_entries |-> 0,
     entry_plan |-> None, entry_scratch |-> None,
     crashes |-> 0, resume_from |-> None, agent_wrote |-> {}]

\* ------------------------------------------------------------------ sandbox
\* The @tool-decorated functions of tools.py are modelled by their bodies,
\* for the calls coder_agent makes itself as for those the agent makes.
\* variant: the file is opened for writing, which truncates it, and the
\* content is never written
write_file_truncate_only(sid, path, content, ioerr) ==
    IF sid = None THEN [ok |-> FALSE, fs |-> fs, p |-> None]
    ELSE LET p == safe_path_for_project(path, sid[1]) IN
         IF p = None \/ ioerr THEN [ok |-> FALSE, fs |-> fs, p |-> None]
         ELSE LET made == MkdirParents(fs, p[1]) IN
              IF made = None \/ fs[p[1]] = IsDir
              THEN [ok |-> FALSE, fs |-> fs, p |-> None]
              ELSE [ok |-> TRUE, fs |-> [made[1] EXCEPT ![p[1]] = EmptyStr], p |-> p]

\* tools.py 36-44: write_file up to the end of the with-block.  The result
\* says whether the body returned (ok) and gives the file system after it.
\* sid is the value of _session_id the call reads; ioerr an OSError raised
\* by the first file-system call.  The parents of p are made directories;
\* the call fails when a regular file is in their way or p is a directory,
\* and a failed call leaves the file system as it was.
write_file_body(sid, path, content, ioerr) ==
    IF sid = None THEN [ok |-> FALSE, fs |-> fs, p |-> None]
    ELSE LET p == safe_path_for_project(path, sid[1]) IN
         IF p = None \/ ioerr THEN [ok |-> FALSE, fs |-> fs, p |-> None]
         ELSE LET made == MkdirParents(fs, p[1]) IN
              IF made = None \/ fs[p[1]] = IsDir
              THEN [ok |-> FALSE, fs |-> fs, p |-> None]
              ELSE [ok |-> TRUE, fs |-> [made[1] EXCEPT ![p[1]] = content], p |-> p]

\* tools.py 59: p.exists() for the path a bound session resolves
p_exists(sid, path) ==
    /\ sid # None
    /\ LET p == safe_path_for_project(path, sid[1]) IN
         p # None /\ fs[p[1]] # NoFile

\* variant: a path with nothing behind it is an error
read_file_missing_raises(sid, path, ioerr) ==
    IF sid = None THEN [ok |-> FALSE, val |-> EmptyStr]
    ELSE LET p == safe_path_for_project(path, sid[1]) IN
         IF p = None THEN [ok |-> FALSE, val |-> EmptyStr]
         ELSE IF ioerr \/ fs[p[1]] \in {NoFile, IsDir} THEN [ok |-> FALSE, val |-> EmptyStr]
         ELSE [ok |-> TRUE, val |-> fs[p[1]]]

\* tools.py 53-62: read_file
read_file(sid, path, ioerr) ==
    IF sid = None THEN [ok |-> FALSE, val |-> EmptyStr]
    ELSE LET p == safe_path_for_project(path, sid[1]) IN
         IF p = None THEN [ok |-> FALSE, val |-> EmptyStr]
         ELSE IF ~p_exists(sid, path) THEN [ok |-> TRUE, val |-> EmptyStr]
         ELSE IF ioerr \/ fs[p[1]] = IsDir THEN [ok |-> FALSE, val |-> EmptyStr]
         ELSE [ok |-> TRUE, val |-> fs[p[1]]]

\* tools.py 75-84: list_files; the listing itself is not kept, only whether
\* the call returned
list_files(sid, directory) ==
    IF sid = None THEN [ok |-> FALSE]
    ELSE [ok |-> safe_path_for_project(directory, sid[1]) # None]

\* variant: the working directory is reported whether or not a session is bound
get_current_directory_unchecked(sid) ==
    [ok |-> TRUE, val |-> IF sid = None THEN Cwd ELSE get_project_root(sid[1])]

\* tools.py 66-71: get_current_directory
get_current_directory(sid) ==
    IF sid = None THEN [ok |-> FALSE, val |-> << >>]
    ELSE [ok |-> TRUE, val |-> get_project_root(sid[1])]

\* a sandbox call of worker w that read _session_id = sid resolves its path
\* under get_project_root(sid); unbound calls resolve nothing
Traced(w, op, sid) ==
    IF sid = None \/ op = "cwd" THEN io_trace
    ELSE io_trace \cup {[by |-> w, sid |-> sid[1]]}

Count(w, field) ==
    [hist EXCEPT ![w].calls[field] = IF field \in {"reads", "writes", "emits"} THEN TRUE ELSE @ + 1]

\* where a worker's run starts: agent.invoke enters the planner
\* (graph.py 308), a caller of the bare node functions enters them directly
StartPc(w) ==
    IF hist[w].kind \in {"graph", "script"} THEN "planner"
    ELSE IF hist[w].kind = "server" THEN "mark_running"
    ELSE IF hist[w].kind = "tools" THEN "tool_idle"
    ELSE IF hist[w].kind = "noplan" THEN "architect" ELSE "coder"

\* main.py 144, graph.py 322, test_agent.py 22: the recursion_limit of the run
RecursionLimit(w) ==
    IF hist[w].kind = "script" THEN ScriptRecursionLimit ELSE ServerRecursionLimit

\* variant: one superstep more than the limit is allowed
NodeMayRunOneMore(w) == driver[w] = "graph" => hist[w].supersteps <= RecursionLimit(w)

\* a node of the compiled graph runs only while the run has supersteps left;
\* a caller of the bare node functions has no such limit
NodeMayRun(w) == driver[w] = "graph" => hist[w].supersteps < RecursionLimit(w)

\* the TaskPlans the architect request may answer with
ArchitectAnswers(w) == IF hist[w].kind = "script" THEN LongStepLists ELSE StepLists

\* tools.py 12-16: set_event_emitter, one assignment per step
SetEventEmitter(w) ==
    /\ pc[w] = "new"
    /\ g_event_emitter' = Some(w)
    /\ pc' = [pc EXCEPT ![w] = "bind"]
    /\ UNCHANGED <<tool, sessions, g_session_id, fs, events, io_trace, driver, state, cs, loc, pend, hist>>

SetSessionId(w) ==
    /\ pc[w] = "bind"
    /\ g_session_id' = Some(w)
    /\ pc' = [pc EXCEPT ![w] = StartPc(w)]
    /\ hist' = [hist EXCEPT ![w].bound = TRUE]
    /\ UNCHANGED <<tool, sessions, g_event_emitter, fs, events, io_trace, driver, state, cs, loc, pend>>

\* main.py 122: create_session_agent(session_id, session_emitter) binds the
\* sandbox to the session before the pipeline runs
create_session_agent(w) == SetEventEmitter(w) \/ SetSessionId(w)

\* test_agent.py 19-23, graph.py 320: the pipeline is run with no session bound
StartUnbound(w) ==
    /\ pc[w] = "new"
    /\ hist[w].kind # "server"
    /\ pc' = [pc EXCEPT ![w] = StartPc(w)]
    /\ UNCHANGED <<tool, sessions, g_session_id, g_event_emitter, fs, events, io_trace,
                   driver, state, cs, loc, pend, hist>>

\* tools.py 18-21 reached from write_file line 47: the event is handed to the
\* emitter with the session id read at that moment; the emitter may raise
\* variant: an exception of the emitter leaves the running node
OnEmitterErrorPropagates(pd) == "raised"

\* graph.py 145-146, 250-251 and the tool-call handling of the agent: an
\* exception leaving write_file is handled where the call was made
OnEmitterError(pd) == pd.err

EmitEvent(w) ==
    /\ pc[w] = "emit"
    /\ \E raises \in BOOLEAN :
         IF g_event_emitter # None /\ g_session_id # None
         THEN /\ events' = events \cup {[by |-> w, sid |-> g_session_id[1],
                                         emitter |-> g_event_emitter[1],
                                         type |-> "file", path |-> pend[w].path]}
              /\ hist' = [Count(w, "emits") EXCEPT ![w].emit_raised =
                                IF raises THEN @ \cup {pend[w].path} ELSE @]
              /\ pc' = [pc EXCEPT ![w] = IF raises THEN OnEmitterError(pend[w])
                                         ELSE pend[w].ret]
         ELSE /\ ~raises
              /\ pc' = [pc EXCEPT ![w] = pend[w].ret]
              /\ UNCHANGED <<events, hist>>
    /\ pend' = [pend EXCEPT ![w] = NoPend]
    /\ UNCHANGED <<tool, sessions, g_session_id, g_event_emitter, fs, io_trace, driver, state, cs, loc>>

\* -------------------------------------------------------- planner, architect
\* graph.py 53-55: the plan substituted when structured generation fails
PlannerFallback == ErrorPlan

\* graph.py 42-55: planner_agent; run_structured returns a Plan or raises
planner_agent(w) ==
    /\ pc[w] = "planner"
    /\ NodeMayRun(w)
    /\ \E failed \in BOOLEAN, plan \in Plans :
         /\ state' = [state EXCEPT ![w] =
                StateDict(Some(IF failed THEN PlannerFallback ELSE plan), None, None)]
         /\ hist' = [hist EXCEPT ![w].planner_failed = failed,
                                 ![w].supersteps = @ + 1]
    /\ pc' = [pc EXCEPT ![w] = "architect"]
    /\ UNCHANGED <<tool, sessions, g_session_id, g_event_emitter, fs, events, io_trace, driver, cs, loc, pend>>

\* variant: the substituted TaskPlan keeps a placeholder step
ArchitectFallbackOneStep == <<AppPy>>

\* graph.py 62 and 75-76: the steps substituted when there is no plan or when
\* structured generation fails
ArchitectFallbackSteps == << >>

\* graph.py 58-76: architect_agent; the TaskPlan request is made for every
\* plan, whatever its file list, and its answer is the model's choice
architect_agent(w) ==
    /\ pc[w] = "architect"
    /\ NodeMayRun(w)
    /\ IF state[w].plan = None
       THEN /\ state' = [state EXCEPT ![w] =
                   StateDict(None, Some(TaskPlanData(ArchitectFallbackSteps, None)), None)]
            /\ hist' = [hist EXCEPT ![w].architect_default = TRUE]
       ELSE \E failed \in BOOLEAN, steps \in ArchitectAnswers(w) :
              /\ state' = [state EXCEPT ![w] =
                     StateDict(None,
                               Some(TaskPlanData(IF failed THEN ArchitectFallbackSteps ELSE steps,
                                                 state[w].plan)),
                               None)]
              /\ hist' = [hist EXCEPT ![w].architect_default = failed,
                                      ![w].supersteps = @ + 1]
    /\ pc' = [pc EXCEPT ![w] = "coder"]
    /\ UNCHANGED <<tool, sessions, g_session_id, g_event_emitter, fs, events, io_trace, driver, cs, loc, pend>>

\* ---------------------------------------------------------------- coder_agent
\* variant: the terminal check written with > instead of >=
AllStepsCompleteStrict(idx, steps) == idx > Len(steps)

\* graph.py 130: the terminal check
AllStepsComplete(idx, steps) == idx >= Len(steps)

\* variant: the terminal branch rebuilds the state without the scratch field
TerminalReturnNoScratch(c) == CoderStateDump(c.task_plan, c.current_step_idx, None)

\* graph.py 132: what the terminal branch returns
TerminalReturn(c) == CoderStateDump(c.task_plan, c.current_step_idx, c.current_file_content)

\* variant: the cursor moves on by two
NextIdxSkip(idx) == idx + 2

\* graph.py 256: the cursor after a step
NextIdx(idx) == idx + 1

\* variant: the error state starts at cursor 0
NoTaskPlanReturnZero == CoderStateDump(TaskPlanData(<< >>, None), 0, None)

\* graph.py 96: the state returned when no task_plan is found
NoTaskPlanReturn == CoderStateDump(TaskPlanData(<< >>, None), ErrorCursor, None)

\* graph.py 90-93: the search for a task_plan.  The membership test of line
\* 92 looks for the key among the items of coder_state: a dict has it, a
\* CoderState object iterates over (name, value) pairs and none equals the key
HasTaskPlan(st) ==
    \/ st.task_plan # None
    \/ st.coder_state # None /\ st.cs_form = "dict"

\* variant: the cursor is moved on and stored in the state dict as soon as
\* the task is selected
StateAtSelectionEager(st, c) ==
    StateDict(None, None,
              Some(CoderStateDump(c.task_plan, c.current_step_idx + 1, c.current_file_content)))

\* graph.py 98-137: the state dict while a step is attempted.  coder_agent
\* reads the dict it received and never assigns into it; the cursor moves on
\* the local CoderState object only
StateAtSelection(st, c) == st

\* graph.py 79-137: entry of coder_agent up to the selection of current_task
CoderEntry(w) ==
    /\ pc[w] = "coder"
    /\ NodeMayRun(w)
    /\ LET st == state[w]
           h0 == [hist[w] EXCEPT !.calls = NoCalls, !.failed = {},
                                 !.fallback_content = None, !.stepping = FALSE,
                                 !.entry_state = st.coder_state,
                                 !.target_absent = FALSE, !.emit_raised = {},
                                 !.entry_plan = None, !.entry_scratch = None,
                                 !.agent_wrote = {},
                                 !.supersteps = IF driver[w] = "graph" THEN @ + 1 ELSE @]
       IN
       IF ~HasTaskPlan(st)
       THEN \* lines 94-96
            /\ state' = [state EXCEPT ![w] = StateDict(None, None, Some(NoTaskPlanReturn))]
            /\ hist' = [hist EXCEPT ![w] = [h0 EXCEPT !.invocations = @ + 1,
                                                     !.entry_idx = ErrorCursor]]
            /\ pc' = [pc EXCEPT ![w] = "returned"]
            /\ loc' = [loc EXCEPT ![w] = NoLoc]
            /\ UNCHANGED cs
       ELSE LET data == IF st.coder_state = None THEN st.task_plan[1]
                        ELSE st.coder_state[1].task_plan
                c == IF st.coder_state = None THEN CoderStateDump(data, 0, None)
                     ELSE st.coder_state[1]
                steps == c.task_plan.implementation_steps
                h1 == [h0 EXCEPT !.entry_idx = c.current_step_idx,
                                 !.entry_plan = Some(data),
                                 !.entry_scratch = c.current_file_content]
            IN
            IF ~data.valid
            THEN \* lines 102, 112: TaskPlan(**task_plan_data) raises
                 /\ pc' = [pc EXCEPT ![w] = "raised"]
                 /\ hist' = [hist EXCEPT ![w] = h1]
                 /\ loc' = [loc EXCEPT ![w] = NoLoc]
                 /\ UNCHANGED <<state, cs>>
            ELSE IF AllStepsComplete(c.current_step_idx, steps)
            THEN \* lines 130-132
                 /\ state' = [state EXCEPT ![w] = StateDict(None, None, Some(TerminalReturn(c)))]
                 /\ hist' = [hist EXCEPT ![w] = [h1 EXCEPT !.invocations = @ + 1,
                                                          !.terminal_entries = @ + 1]]
                 /\ pc' = [pc EXCEPT ![w] = "returned"]
                 /\ loc' = [loc EXCEPT ![w] = NoLoc]
                 /\ UNCHANGED cs
            ELSE IF c.current_step_idx + 1 \notin DOMAIN steps
            THEN \* line 135: IndexError
                 /\ pc' = [pc EXCEPT ![w] = "raised"]
                 /\ hist' = [hist EXCEPT ![w] = h1]
                 /\ loc' = [loc EXCEPT ![w] = NoLoc]
                 /\ UNCHANGED <<state, cs>>
            ELSE \* lines 135-137
                 /\ cs' = [cs EXCEPT ![w] = c]
                 /\ loc' = [loc EXCEPT ![w] = [NoLoc EXCEPT !.task = steps[c.current_step_idx + 1]]]
                 /\ hist' = [hist EXCEPT ![w] =
                        [h1 EXCEPT !.stepping = TRUE,
                                   !.attempts[c.current_step_idx + 1] = @ + 1,
                                   !.target_absent =
                                       ~p_exists(g_session_id, steps[c.current_step_idx + 1])]]
                 /\ pc' = [pc EXCEPT ![w] = "probe_write"]
                 /\ state' = [state EXCEPT ![w] = StateAtSelection(st, c)]
    /\ UNCHANGED <<tool, sessions, g_session_id, g_event_emitter, fs, events, io_trace, driver, pend>>

\* graph.py 140-142: the probe write of test.txt
ProbeWrite(w) ==
    /\ pc[w] = "probe_write"
    /\ \E ioerr \in BOOLEAN :
         LET r == write_file_body(g_session_id, TestTxt, HelloWorldTest, ioerr) IN
         /\ fs' = r.fs
         /\ IF r.ok
            THEN /\ pc' = [pc EXCEPT ![w] = "emit"]
                 /\ pend' = [pend EXCEPT ![w] =
                        [path |-> TestTxt, ret |-> "probe_read", err |-> "read_existing"]]
                 /\ hist' = Count(w, "writes")
            ELSE /\ pc' = [pc EXCEPT ![w] = "read_existing"]
                 /\ UNCHANGED <<pend, hist>>
    /\ io_trace' = Traced(w, "write", g_session_id)
    /\ UNCHANGED <<tool, sessions, g_session_id, g_event_emitter, events, driver, state, cs, loc>>

\* graph.py 143-146: the probe read
ProbeRead(w) ==
    /\ pc[w] = "probe_read"
    /\ hist' = Count(w, "reads")
    /\ io_trace' = Traced(w, "read", g_session_id)
    /\ pc' = [pc EXCEPT ![w] = "read_existing"]
    /\ UNCHANGED <<tool, sessions, g_session_id, g_event_emitter, fs, events, driver, state, cs, loc, pend>>

\* graph.py 149-154: existing content of the target file, "" when the read raises
ReadExisting(w) ==
    /\ pc[w] = "read_existing"
    /\ \E ioerr \in BOOLEAN :
         LET r == read_file(g_session_id, loc[w].task, ioerr) IN
         /\ ioerr => ~r.ok
         /\ loc' = [loc EXCEPT ![w].existing_content = r.val]
         /\ hist' = [hist EXCEPT ![w].calls.reads = TRUE,
                                 ![w].failed = IF r.ok THEN @ ELSE @ \cup {"existing_read"}]
    /\ io_trace' = Traced(w, "read", g_session_id)
    /\ pc' = [pc EXCEPT ![w] = "react_invoke"]
    /\ UNCHANGED <<tool, sessions, g_session_id, g_event_emitter, fs, events, driver, state, cs, pend>>

\* graph.py 165-177: the primary path starts: one react agent, one invoke
ReactInvoke(w) ==
    /\ pc[w] = "react_invoke"
    /\ hist' = Count(w, "primary")
    /\ loc' = [loc EXCEPT ![w].turns = 0, ![w].success = FALSE]
    /\ pc' = [pc EXCEPT ![w] = "react"]
    /\ UNCHANGED <<tool, sessions, g_session_id, g_event_emitter, fs, events, io_trace, driver, state, cs, pend>>

\* the agent calls the write_file tool (tools.py 35-49); a failing tool call
\* is reported back to the agent, which goes on or gives up (AgentRaise)
AgentWrite(w) ==
    /\ pc[w] = "react"
    /\ loc[w].turns < AgentCap
    /\ \E path \in StepPaths, content \in AgentContents, ioerr \in BOOLEAN :
         LET r == write_file_body(g_session_id, path, content, ioerr) IN
         /\ fs' = r.fs
         /\ IF r.ok
            THEN /\ pc' = [pc EXCEPT ![w] = "emit"]
                 /\ pend' = [pend EXCEPT ![w] = [path |-> path, ret |-> "react", err |-> "react"]]
                 /\ hist' = [hist EXCEPT ![w].calls.writes = TRUE,
                                         ![w].agent_wrote = @ \cup {path}]
            ELSE UNCHANGED <<pc, pend, hist>>
    /\ loc' = [loc EXCEPT ![w].turns = @ + 1]
    /\ io_trace' = Traced(w, "write", g_session_id)
    /\ UNCHANGED <<tool, sessions, g_session_id, g_event_emitter, events, driver, state, cs>>

\* the agent calls the read_file tool (tools.py 52-62)
AgentRead(w) ==
    /\ pc[w] = "react"
    /\ loc[w].turns < AgentCap
    /\ loc' = [loc EXCEPT ![w].turns = @ + 1]
    /\ hist' = Count(w, "reads")
    /\ io_trace' = Traced(w, "read", g_session_id)
    /\ UNCHANGED <<tool, sessions, g_session_id, g_event_emitter, fs, events, pc, driver, state, cs, pend>>

\* the agent calls the list_files tool (tools.py 74-84)
AgentList(w) ==
    /\ pc[w] = "react"
    /\ loc[w].turns < AgentCap
    /\ loc' = [loc EXCEPT ![w].turns = @ + 1]
    /\ io_trace' = Traced(w, "list", g_session_id)
    /\ UNCHANGED <<tool, sessions, g_session_id, g_event_emitter, fs, events, pc, driver, state, cs, pend, hist>>

\* the agent calls the get_current_directory tool (tools.py 65-71)
AgentCwd(w) ==
    /\ pc[w] = "react"
    /\ loc[w].turns < AgentCap
    /\ loc' = [loc EXCEPT ![w].turns = @ + 1]
    /\ io_trace' = Traced(w, "cwd", g_session_id)
    /\ UNCHANGED <<tool, sessions, g_session_id, g_event_emitter, fs, events, pc, driver, state, cs, pend, hist>>

\* graph.py 172-179: react_agent.invoke returns
AgentStop(w) ==
    /\ pc[w] = "react"
    /\ pc' = [pc EXCEPT ![w] = "list_after"]
    /\ UNCHANGED <<tool, sessions, g_session_id, g_event_emitter, fs, events, io_trace,
                   driver, state, cs, loc, pend, hist>>

\* graph.py 192-197: react_agent.invoke raises (model error, time-out,
\* iteration cap, a tool error that is not absorbed)
AgentRaise(w) ==
    /\ pc[w] = "react"
    /\ loc' = [loc EXCEPT ![w].success = FALSE]
    /\ hist' = [hist EXCEPT ![w].failed = @ \cup {"primary"}]
    /\ pc' = [pc EXCEPT ![w] = "verify"]
    /\ UNCHANGED <<tool, sessions, g_session_id, g_event_emitter, fs, events, io_trace, driver, state, cs, pend>>

\* graph.py 183-190: the listing after the agent, then success = True
ListAfter(w) ==
    /\ pc[w] = "list_after"
    /\ loc' = [loc EXCEPT ![w].success = TRUE]
    /\ io_trace' = Traced(w, "list", g_session_id)
    /\ pc' = [pc EXCEPT ![w] = "verify"]
    /\ UNCHANGED <<tool, sessions, g_session_id, g_event_emitter, fs, events, driver, state, cs, pend, hist>>

\* variant: content of a single token does not count
FileExistsLong(test_content) == Len(Strip(test_content)) > 1

\* graph.py 205: the target counts as present when its content, stripped of
\* surrounding whitespace, is not empty
FileExists(test_content) == Len(Strip(test_content)) > 0

\* variant: the fallback is tried only when both conditions hold
NeedsFallbackBoth(success, file_exists_after_react) ==
    ~success /\ ~file_exists_after_react

\* graph.py 211: the condition under which the fallback is tried
NeedsFallback(success, file_exists_after_react) ==
    ~success \/ ~file_exists_after_react

\* graph.py 200-211: verification read and the choice of the fallback
VerifyRead(w) ==
    /\ pc[w] = "verify"
    /\ \E ioerr \in BOOLEAN :
         LET r == read_file(g_session_id, loc[w].task, ioerr)
             exists == IF r.ok THEN FileExists(r.val) ELSE FALSE
         IN
         /\ ioerr => ~r.ok
         /\ loc' = [loc EXCEPT ![w].file_exists_after_react = exists,
                               ![w].test_content = IF r.ok THEN Some(r.val) ELSE None]
         /\ hist' = [hist EXCEPT ![w].calls.reads = TRUE,
                                 ![w].failed = IF r.ok THEN @ ELSE @ \cup {"verify_read"}]
         /\ pc' = [pc EXCEPT ![w] =
                IF NeedsFallback(loc[w].success, exists) THEN "fallback_llm" ELSE "increment"]
    /\ io_trace' = Traced(w, "read", g_session_id)
    /\ UNCHANGED <<tool, sessions, g_session_id, g_event_emitter, fs, events, driver, state, cs, pend>>

\* variant: the fallback path has no exception handler
OnFallbackErrorPropagates == "raised"

\* graph.py 250-253: an exception on the fallback path is caught and the
\* step goes on to the increment
OnFallbackError == "increment"

\* variant: an empty completion is asked for again
AfterEmptyCompletionRetry == "fallback_llm"

\* graph.py 226, 247-248: where an empty completion leads
AfterEmptyCompletion == "increment"

\* graph.py 217-220: the answers of the model to the fallback request; a run
\* made to exercise the clean-up gets every short text
FallbackAnswers(w) == IF hist[w].kind = "clean" THEN CleanTexts ELSE Completions

\* graph.py 213-226, 247-251: the fallback completion is requested; it
\* raises, or has no content, or has content
FallbackInvoke(w) ==
    /\ pc[w] = "fallback_llm"
    /\ \E raises \in BOOLEAN, content \in FallbackAnswers(w) :
         /\ raises => content = EmptyStr
         /\ hist' = [hist EXCEPT ![w].calls.fallback = @ + 1,
                                 ![w].failed = IF raises THEN @ \cup {"fallback_llm"} ELSE @,
                                 ![w].fallback_content = IF raises THEN None ELSE Some(content)]
         /\ loc' = [loc EXCEPT ![w].resp = content]
         /\ pc' = [pc EXCEPT ![w] =
                IF raises THEN OnFallbackError
                ELSE IF content = EmptyStr THEN AfterEmptyCompletion
                ELSE "fallback_write"]
    /\ UNCHANGED <<tool, sessions, g_session_id, g_event_emitter, fs, events, io_trace, driver, state, cs, pend>>

\* graph.py 228-239: the cleaned completion is written to the target file
FallbackWrite(w) ==
    /\ pc[w] = "fallback_write"
    /\ \E ioerr \in BOOLEAN :
         LET r == write_file_body(g_session_id, loc[w].task, CleanFallback(loc[w].resp), ioerr) IN
         /\ fs' = r.fs
         /\ IF r.ok
            THEN /\ pc' = [pc EXCEPT ![w] = "emit"]
                 /\ pend' = [pend EXCEPT ![w] =
                        [path |-> loc[w].task, ret |-> "fallback_verify", err |-> OnFallbackError]]
                 /\ hist' = [hist EXCEPT ![w].calls.writes = TRUE,
                                         ![w].calls.fallback_writes = @ + 1]
            ELSE /\ pc' = [pc EXCEPT ![w] = OnFallbackError]
                 /\ hist' = [hist EXCEPT ![w].failed = @ \cup {"fallback_write"}]
                 /\ UNCHANGED pend
    /\ io_trace' = Traced(w, "write", g_session_id)
    /\ UNCHANGED <<tool, sessions, g_session_id, g_event_emitter, events, driver, state, cs, loc>>

\* graph.py 242-246: the read after the fallback write
FallbackVerify(w) ==
    /\ pc[w] = "fallback_verify"
    /\ hist' = Count(w, "reads")
    /\ io_trace' = Traced(w, "read", g_session_id)
    /\ pc' = [pc EXCEPT ![w] = "increment"]
    /\ UNCHANGED <<tool, sessions, g_session_id, g_event_emitter, fs, events, driver, state, cs, loc, pend>>

\* variant: the returned task_plan has lost the step that was attempted
StepReturnConsumed(c) ==
    CoderStateDump([c.task_plan EXCEPT !.implementation_steps = Tail(@)],
                   c.current_step_idx, c.current_file_content)

\* graph.py 261: coder_state.model_dump()
StepReturn(c) == CoderStateDump(c.task_plan, c.current_step_idx, c.current_file_content)

\* graph.py 255-263: the cursor moves on and the state is returned
Increment(w) ==
    /\ pc[w] = "increment"
    /\ LET c == [cs[w] EXCEPT !.current_step_idx = NextIdx(@)] IN
         /\ state' = [state EXCEPT ![w] = StateDict(None, None, Some(StepReturn(c)))]
         /\ cs' = [cs EXCEPT ![w] = NoCs]
    /\ hist' = [hist EXCEPT ![w].invocations = @ + 1, ![w].resume_from = None]
    /\ pc' = [pc EXCEPT ![w] = "returned"]
    /\ UNCHANGED <<tool, sessions, g_session_id, g_event_emitter, fs, events, io_trace, driver, loc, pend>>

\* variant: the comparison of should_continue written with > instead of >=
should_continue_strict(st) ==
    IF st.coder_state # None /\ st.cs_form = "dict"
    THEN LET current_idx == st.coder_state[1].current_step_idx
             total_steps == Len(st.coder_state[1].task_plan.implementation_steps)
         IN IF current_idx > total_steps THEN "END" ELSE "coder"
    ELSE "END"

\* graph.py 266-293: should_continue
should_continue(st) ==
    IF st.coder_state # None /\ st.cs_form = "dict"
    THEN LET current_idx == st.coder_state[1].current_step_idx
             total_steps == Len(st.coder_state[1].task_plan.implementation_steps)
         IN IF current_idx >= total_steps THEN "END" ELSE "coder"
    ELSE "END"

\* graph.py 303-307: the conditional edge after the coder node
ShouldContinue(w) ==
    /\ pc[w] = "returned"
    /\ driver[w] = "graph"
    /\ pc' = [pc EXCEPT ![w] = should_continue(state[w])]
    /\ UNCHANGED <<tool, sessions, g_session_id, g_event_emitter, fs, events, io_trace,
                   driver, state, cs, loc, pend, hist>>

\* graph.py 310 with the recursion_limit of the caller: a run that has used
\* up its supersteps with a node still to run is aborted, and the
\* GraphRecursionError leaves agent.invoke
RecursionLimitReached(w) ==
    /\ pc[w] \in {"planner", "architect", "coder"}
    /\ ~NodeMayRun(w)
    /\ pc' = [pc EXCEPT ![w] = "raised"]
    /\ UNCHANGED <<tool, sessions, g_session_id, g_event_emitter, fs, events, io_trace,
                   driver, state, cs, loc, pend, hist>>

\* a direct caller invokes coder_agent again with the state it returned
Reinvoke(w) ==
    /\ pc[w] = "returned"
    /\ driver[w] = "direct"
    /\ hist[w].invocations < MaxInvoke
    /\ pc' = [pc EXCEPT ![w] = "coder"]
    /\ UNCHANGED <<tool, sessions, g_session_id, g_event_emitter, fs, events, io_trace,
                   driver, state, cs, loc, pend, hist>>

\* graph.py 137-263: the worker stops anywhere between the selection of a
\* task and the return of coder_agent, and the caller invokes coder_agent
\* again with the state the last invocation returned.  The locals of the
\* interrupted call are lost, the files it wrote stay.
Crash(w) ==
    /\ pc[w] \in {"probe_write", "probe_read", "read_existing", "react_invoke", "react",
                  "list_after", "verify", "fallback_llm", "fallback_write",
                  "fallback_verify", "increment", "emit"}
    /\ driver[w] = "direct"
    /\ hist[w].crashes < MaxCrashes
    /\ hist' = [hist EXCEPT ![w].crashes = @ + 1,
                            ![w].resume_from = Some(hist[w].entry_idx)]
    /\ cs' = [cs EXCEPT ![w] = NoCs]
    /\ loc' = [loc EXCEPT ![w] = NoLoc]
    /\ pend' = [pend EXCEPT ![w] = NoPend]
    /\ pc' = [pc EXCEPT ![w] = "coder"]
    /\ UNCHANGED <<tool, sessions, g_session_id, g_event_emitter, fs, events, io_trace,
                   driver, state>>

\* --------------------------------------------------------- direct tool calls
\* the exception a failed tool call raises: ValueError from the binding check
\* (tools.py 38, 55, 68, 77) or from safe_path_for_project (tools.py 31),
\* OSError from the file system
ToolError(ok, sid, path) ==
    IF ok THEN ""
    ELSE IF sid = None THEN "ValueError"
    ELSE IF safe_path_for_project(path, sid[1]) = None THEN "ValueError"
    ELSE "OSError"

\* a caller of the sandbox tools picks its next call
ToolRequest(w) ==
    /\ pc[w] = "tool_idle"
    /\ tool[w].n < MaxCalls
    /\ \E op \in {"write", "read", "list", "cwd"}, path \in SandboxPaths,
          content \in ToolContents :
         /\ op # "write" => content = <<"x">>
         /\ op = "cwd" => path = << >>
         /\ tool' = [tool EXCEPT ![w] = [@ EXCEPT !.op = op, !.path = path,
                                                  !.content = content, !.n = @ + 1,
                                                  !.ok = FALSE, !.err = "",
                                                  !.val = EmptyStr]]
    /\ pc' = [pc EXCEPT ![w] = "tool_call"]
    /\ UNCHANGED <<sessions, g_session_id, g_event_emitter, fs, events, io_trace,
                   driver, state, cs, loc, pend, hist>>

\* tools.py 35-49: write_file called by the tool caller
ToolWrite(w) ==
    /\ pc[w] = "tool_call"
    /\ tool[w].op = "write"
    /\ \E ioerr \in BOOLEAN :
         LET r == write_file_body(g_session_id, tool[w].path, tool[w].content, ioerr) IN
         /\ fs' = r.fs
         /\ IF r.ok
            THEN /\ pc' = [pc EXCEPT ![w] = "emit"]
                 /\ pend' = [pend EXCEPT ![w] =
                        [path |-> tool[w].path, ret |-> "tool_idle", err |-> "tool_idle"]]
                 /\ tool' = [tool EXCEPT ![w].ok = TRUE,
                                         ![w].last_write =
                                             Some([path |-> tool[w].path,
                                                   content |-> tool[w].content])]
            ELSE /\ pc' = [pc EXCEPT ![w] = "tool_idle"]
                 /\ tool' = [tool EXCEPT ![w].err =
                                 ToolError(FALSE, g_session_id, tool[w].path)]
                 /\ UNCHANGED pend
    /\ io_trace' = Traced(w, "write", g_session_id)
    /\ UNCHANGED <<sessions, g_session_id, g_event_emitter, events, driver, state, cs, loc, hist>>

\* tools.py 52-62: read_file called by the tool caller
ToolRead(w) ==
    /\ pc[w] = "tool_call"
    /\ tool[w].op = "read"
    /\ \E ioerr \in BOOLEAN :
         LET r == read_file(g_session_id, tool[w].path, ioerr) IN
         tool' = [tool EXCEPT ![w].ok = r.ok, ![w].val = r.val,
                              ![w].err = ToolError(r.ok, g_session_id, tool[w].path)]
    /\ io_trace' = Traced(w, "read", g_session_id)
    /\ pc' = [pc EXCEPT ![w] = "tool_idle"]
    /\ UNCHANGED <<sessions, g_session_id, g_event_emitter, fs, events, driver, state, cs,
                   loc, pend, hist>>

\* tools.py 74-84: list_files called by the tool caller
ToolList(w) ==
    /\ pc[w] = "tool_call"
    /\ tool[w].op = "list"
    /\ LET r == list_files(g_session_id, tool[w].path) IN
         tool' = [tool EXCEPT ![w].ok = r.ok,
                              ![w].err = ToolError(r.ok, g_session_id, tool[w].path)]
    /\ io_trace' = Traced(w, "list", g_session_id)
    /\ pc' = [pc EXCEPT ![w] = "tool_idle"]
    /\ UNCHANGED <<sessions, g_session_id, g_event_emitter, fs, events, driver, state, cs,
                   loc, pend, hist>>

\* tools.py 65-71: get_current_directory called by the tool caller
ToolCwd(w) ==
    /\ pc[w] = "tool_call"
    /\ tool[w].op = "cwd"
    /\ LET r == get_current_directory(g_session_id) IN
         tool' = [tool EXCEPT ![w].ok = r.ok, ![w].val = r.val,
                              ![w].err = IF r.ok THEN "" ELSE "ValueError"]
    /\ pc' = [pc EXCEPT ![w] = "tool_idle"]
    /\ UNCHANGED <<sessions, g_session_id, g_event_emitter, fs, events, io_trace, driver,
                   state, cs, loc, pend, hist>>

\* ------------------------------------------------------------------ server
\* main.py 192-226: run_project enters the session in the table and starts
\* run_agent_background on a worker thread
run_project(w) ==
    /\ pc[w] = "request"
    /\ sessions' = [sessions EXCEPT ![w] = [NoSession EXCEPT !.status = "starting"]]
    /\ pc' = [pc EXCEPT ![w] = "import"]
    /\ UNCHANGED <<tool, g_session_id, g_event_emitter, fs, events, io_trace,
                   driver, state, cs, loc, pend, hist>>

\* main.py 86: the import of Agent.graph runs that module, which builds the
\* model clients, and may raise
ImportAgent(w) ==
    /\ pc[w] = "import"
    /\ \E raises \in BOOLEAN :
         pc' = [pc EXCEPT ![w] = IF raises THEN "bg_error" ELSE "new"]
    /\ UNCHANGED <<tool, sessions, g_session_id, g_event_emitter, fs, events, io_trace,
                   driver, state, cs, loc, pend, hist>>

\* main.py 125-139: the session is marked running, then agent.invoke starts
MarkRunning(w) ==
    /\ pc[w] = "mark_running"
    /\ sessions' = [sessions EXCEPT ![w].status = "running"]
    /\ pc' = [pc EXCEPT ![w] = "planner"]
    /\ UNCHANGED <<tool, g_session_id, g_event_emitter, fs, events, io_trace,
                   driver, state, cs, loc, pend, hist>>

\* variant: the status is left as the run found it
FinalStatusKept(status) == status

\* main.py 151-152: the status after agent.invoke returned
FinalStatus(status) == IF status # "error" THEN "completed" ELSE status

\* main.py 147-166: agent.invoke returned; the result is stored, the status
\* set, and a status message saying completed is sent
FinishRun(w) ==
    /\ pc[w] = "END"
    /\ hist[w].kind = "server"
    /\ sessions' = [sessions EXCEPT ![w].result = Some(state[w]),
                                    ![w].status = FinalStatus(@),
                                    ![w].notified = Some("completed")]
    /\ pc' = [pc EXCEPT ![w] = "finished"]
    /\ UNCHANGED <<tool, g_session_id, g_event_emitter, fs, events, io_trace,
                   driver, state, cs, loc, pend, hist>>

\* variant: the except branch sets the status and leaves the error field
HandleErrorNoMessage(w) ==
    /\ pc[w] \in {"bg_error", "raised"}
    /\ hist[w].kind = "server"
    /\ sessions' = [sessions EXCEPT ![w].status = "error",
                                    ![w].notified = Some("error")]
    /\ pc' = [pc EXCEPT ![w] = "finished"]
    /\ UNCHANGED <<tool, g_session_id, g_event_emitter, fs, events, io_trace,
                   driver, state, cs, loc, pend, hist>>

\* main.py 168-186: any exception of the run ends the session in error
HandleError(w) ==
    /\ pc[w] \in {"bg_error", "raised"}
    /\ hist[w].kind = "server"
    /\ sessions' = [sessions EXCEPT ![w].status = "error",
                                    ![w].error = Some("str(e)"),
                                    ![w].notified = Some("error")]
    /\ pc' = [pc EXCEPT ![w] = "finished"]
    /\ UNCHANGED <<tool, g_session_id, g_event_emitter, fs, events, io_trace,
                   driver, state, cs, loc, pend, hist>>

\* main.py 89-110: session_emitter, the table after an event of the given
\* type arrived for session sid; events for a session that is not in the
\* table are dropped, node and file events leave status and error alone
session_emitter(tbl, sid, type) ==
    IF tbl[sid].status = "none" THEN tbl
    ELSE IF type = "done" THEN [tbl EXCEPT ![sid].status = "completed"]
    ELSE IF type = "error"
         THEN [tbl EXCEPT ![sid].status = "error", ![sid].error = Some("message")]
    ELSE tbl

\* the pipeline of a server session reports an error between two nodes, or
\* that it is done once the graph has ended; the event reaches the emitter
\* bound in tools.py with the session id bound there (tools.py 18-21)
SinkEvent(w) ==
    /\ hist[w].kind = "server"
    /\ g_event_emitter # None
    /\ g_session_id # None
    /\ \E type \in {"done", "error"} :
         /\ pc[w] \in (IF type = "done" THEN {"END"}
                       ELSE {"planner", "architect", "coder", "returned"})
         /\ sessions' = session_emitter(sessions, g_session_id[1], type)
    /\ UNCHANGED <<tool, g_session_id, g_event_emitter, fs, events, io_trace, pc,
                   driver, state, cs, loc, pend, hist>>

\* -------------------------------------------------------------- file endpoints
\* main.py 273-275
get_session_project_path(session_id) == Cwd \o <<"generated_project", session_id>>

\* the characters of a path segment, as far as one name can begin with another
Chars(seg) == IF seg = SiblingDir THEN <<"A", "2">> ELSE <<seg>>

\* str(path) of a resolved path: the segments, each after a separator
RECURSIVE PathStr(_)
PathStr(p) == IF p = << >> THEN << >> ELSE <<"/">> \o Chars(Head(p)) \o PathStr(Tail(p))

\* main.py 318, 369: str(file_path).startswith(str(project_path))
StartsWithProject(file_path, project_path) ==
    IsPrefix(PathStr(project_path), PathStr(file_path))

\* main.py 315-321, 366-372: the security check.  The HTTPException with
\* status 403 is raised inside the try block, whose except Exception clause
\* catches it and raises status 400 in its place.  0 when the check passes.
SecurityCheck(file_path, project_path) ==
    IF StartsWithProject(file_path, project_path) THEN 0 ELSE 400

\* no request made yet
NoRequest == [op |-> "none", sid |-> "", path |-> << >>, n |-> 0,
              status |-> 0, opened |-> None]

\* a client sends GET /api/file or POST /api/file
FileRequest(w) ==
    /\ pc[w] = "ep_idle"
    /\ tool[w].n < MaxCalls
    /\ \E op \in {"GET", "POST"}, sid \in Sessions, path \in EndpointPaths :
         tool' = [tool EXCEPT ![w] = [op |-> op, sid |-> sid, path |-> path,
                                      n |-> tool[w].n + 1, status |-> 0,
                                      opened |-> None]]
    /\ pc' = [pc EXCEPT ![w] = "ep_call"]
    /\ UNCHANGED <<sessions, g_session_id, g_event_emitter, fs, events, io_trace,
                   driver, state, cs, loc, pend, hist>>

\* main.py 305-354: GET /api/file; status is the HTTP status of the answer,
\* opened the resolved path of the file the handler opened
get_file_content(w) ==
    /\ pc[w] = "ep_call"
    /\ tool[w].op = "GET"
    /\ \E ioerr \in BOOLEAN :
         LET project_path == Resolve(get_session_project_path(tool[w].sid))
             file_path == Resolve(get_session_project_path(tool[w].sid) \o tool[w].path)
             denied == SecurityCheck(file_path, project_path)
         IN tool' = [tool EXCEPT ![w] =
                IF sessions[tool[w].sid].status = "none" THEN [@ EXCEPT !.status = 404]
                ELSE IF denied # 0 THEN [@ EXCEPT !.status = denied]
                ELSE IF fs[file_path] = NoFile THEN [@ EXCEPT !.status = 404]
                ELSE IF fs[file_path] = IsDir THEN [@ EXCEPT !.status = 400]
                ELSE IF ioerr THEN [@ EXCEPT !.status = 500]
                ELSE [@ EXCEPT !.status = 200, !.opened = Some(file_path)]]
    /\ pc' = [pc EXCEPT ![w] = "ep_idle"]
    /\ UNCHANGED <<sessions, g_session_id, g_event_emitter, fs, events, io_trace,
                   driver, state, cs, loc, pend, hist>>

\* main.py 356-389: POST /api/file
update_file_content(w) ==
    /\ pc[w] = "ep_call"
    /\ tool[w].op = "POST"
    /\ \E ioerr \in BOOLEAN :
         LET project_path == Resolve(get_session_project_path(tool[w].sid))
             file_path == Resolve(get_session_project_path(tool[w].sid) \o tool[w].path)
             denied == SecurityCheck(file_path, project_path)
             made == MkdirParents(fs, file_path)
         IN IF sessions[tool[w].sid].status = "none"
            THEN tool' = [tool EXCEPT ![w].status = 404] /\ UNCHANGED fs
            ELSE IF denied # 0
            THEN tool' = [tool EXCEPT ![w].status = denied] /\ UNCHANGED fs
            ELSE IF ioerr \/ made = None
            THEN tool' = [tool EXCEPT ![w].status = 500] /\ UNCHANGED fs
            ELSE IF fs[file_path] = IsDir
            THEN tool' = [tool EXCEPT ![w].status = 500] /\ fs' = made[1]
            ELSE /\ tool' = [tool EXCEPT ![w].status = 200, ![w].opened = Some(file_path)]
                 /\ fs' = [made[1] EXCEPT ![file_path] = <<"x">>]
    /\ pc' = [pc EXCEPT ![w] = "ep_idle"]
    /\ UNCHANGED <<sessions, g_session_id, g_event_emitter, events, io_trace,
                   driver, state, cs, loc, pend, hist>>

\* ------------------------------------------------------------ specifications
DirectPlans == {TaskPlanData(steps, None) : steps \in StepLists} \cup {InvalidTaskPlan}
ScratchValues == {Some(<<"x">>)}

\* the states a direct caller starts from: a fresh task_plan, a coder_state
\* saved by an earlier run (dict form), or a dict with neither
FreshStates == {StateDict(None, Some(tp), None) : tp \in DirectPlans}
ResumedStates ==
    {StateDict(None, None, Some(CoderStateDump(tp, k, cfc))) :
        tp \in DirectPlans \ {InvalidTaskPlan}, k \in 1..MaxSteps, cfc \in ScratchValues}
EmptyState == StateDict(None, None, None)

Resumable(st) ==
    st.coder_state[1].current_step_idx <= Len(st.coder_state[1].task_plan.implementation_steps)

InitWorker(w, st, d) ==
    /\ d = "graph" => st = EmptyState
    /\ d = "direct" /\ st.coder_state # None => Resumable(st)

Kinds(st, d) ==
    IF d = "graph" THEN {"graph", "noplan"}
    ELSE IF st.coder_state # None THEN {"resumed"}
    ELSE IF st.task_plan # None THEN {"fresh"} ELSE {"empty"}

DoneOf(st) == IF st.coder_state # None THEN st.coder_state[1].current_step_idx ELSE 0

InitFor(active) ==
    /\ g_session_id = None
    /\ g_event_emitter = None
    /\ fs = InitFs
    /\ events = {}
    /\ io_trace = {}
    /\ pc = [w \in Sessions |-> IF w \in active THEN "new" ELSE "off"]
    /\ driver \in [Sessions -> {"graph", "direct"}]
    /\ state \in [Sessions -> FreshStates \cup ResumedStates \cup {EmptyState}]
    /\ \A w \in Sessions :
         IF w \in active THEN InitWorker(w, state[w], driver[w])
         ELSE driver[w] = "graph" /\ state[w] = EmptyState
    /\ cs = [w \in Sessions |-> NoCs]
    /\ loc = [w \in Sessions |-> NoLoc]
    /\ pend = [w \in Sessions |-> NoPend]
    /\ tool = [w \in Sessions |-> NoTool]
    /\ sessions = [w \in Sessions |-> NoSession]
    /\ hist \in [Sessions -> {NewHist(k, n) : k \in {"graph", "noplan", "resumed", "fresh", "empty"},
                                              n \in 0..MaxSteps}]
    /\ \A w \in Sessions :
         /\ hist[w].kind \in Kinds(state[w], driver[w])
         /\ hist[w] = NewHist(hist[w].kind, DoneOf(state[w]))
         /\ w \notin active => hist[w].kind = "graph"

\* one session at a time
Init == InitFor({"A"})

Next ==
    \E w \in Sessions :
        \/ create_session_agent(w)
        \/ StartUnbound(w)
        \/ EmitEvent(w)
        \/ planner_agent(w)
        \/ architect_agent(w)
        \/ CoderEntry(w)
        \/ ProbeWrite(w)
        \/ ProbeRead(w)
        \/ ReadExisting(w)
        \/ ReactInvoke(w)
        \/ AgentWrite(w)
        \/ AgentRead(w)
        \/ AgentList(w)
        \/ AgentCwd(w)
        \/ AgentStop(w)
        \/ AgentRaise(w)
        \/ ListAfter(w)
        \/ VerifyRead(w)
        \/ FallbackInvoke(w)
        \/ FallbackWrite(w)
        \/ FallbackVerify(w)
        \/ Increment(w)
        \/ ShouldContinue(w)
        \/ Reinvoke(w)

Spec == Init /\ [][Next]_vars

TypeOK ==
    /\ g_session_id \in {None} \cup {Some(s) : s \in Sessions}
    /\ \A w \in Sessions : pc[w] \in {"off", "new", "bind", "planner", "architect", "coder",
            "probe_write", "probe_read", "read_existing", "react_invoke", "react",
            "list_after", "verify", "fallback_llm", "fallback_write", "fallback_verify",
            "increment", "emit", "returned", "raised", "END",
            "request", "import", "mark_running", "bg_error", "finished",
            "tool_idle", "tool_call", "ep_idle", "ep_call"}
    /\ \A w \in Sessions : sessions[w].status \in
            {"none", "starting", "running", "completed", "error"}
    /\ \A q \in FsPaths : fs[q] = NoFile \/ fs[q] = IsDir \/ fs[q] \in Seq(STRING)

\* ===================================================================== claims
Min(a, b) == IF a < b THEN a ELSE b

\* the task_plan data a worker's state dict carries, None when it has none
PlanOf(w) ==
    IF state[w].coder_state # None THEN Some(state[w].coder_state[1].task_plan)
    ELSE state[w].task_plan

StepsOf(w) == IF PlanOf(w) = None THEN << >> ELSE PlanOf(w)[1].implementation_steps

\* the cursor of the state dict a worker holds (0 before a coder_state exists)
Cursor(w) ==
    IF state[w].coder_state # None THEN state[w].coder_state[1].current_step_idx ELSE 0

\* a step is being attempted: coder_agent selected a task and has not returned
StepPcs == {"probe_write", "probe_read", "read_existing", "react_invoke", "react",
            "list_after", "verify", "fallback_llm", "fallback_write", "fallback_verify",
            "increment", "emit"}
InFlight(w) == pc[w] \in StepPcs

\* the invocation that returned last attempted a step
SteppedAndReturned(w) == hist[w].stepping /\ pc[w] \in {"returned", "END"}

FromTaskPlan(w) == hist[w].kind \in {"graph", "noplan", "fresh", "resumed"}

\* C1: the cursor never decreases and never skips.  With cursor k, exactly
\* the steps 0..k-1 have been attempted, once each, plus step k while an
\* invocation is attempting it; that invocation works on steps[k] and
\* returns k+1.
C1_CursorNeverSkips ==
    \A w \in Sessions :
        FromTaskPlan(w) =>
            /\ \A i \in 1..MaxPlanLen :
                 hist[w].attempts[i] =
                     IF i <= Cursor(w) \/ (InFlight(w) /\ i = Cursor(w) + 1) THEN 1 ELSE 0
            /\ InFlight(w) =>
                 /\ Cursor(w) = hist[w].entry_idx
                 /\ Cursor(w) < Len(StepsOf(w))
                 /\ loc[w].task = StepsOf(w)[Cursor(w) + 1]
            /\ SteppedAndReturned(w) =>
                 /\ Cursor(w) = hist[w].entry_idx + 1
                 /\ loc[w].task = StepsOf(w)[hist[w].entry_idx + 1]

\* C1 witness: the second step of a two-step plan was attempted and returned
C1_Witness ==
    \E w \in Sessions :
        /\ hist[w].kind = "fresh"
        /\ SteppedAndReturned(w)
        /\ hist[w].entry_idx = 1
        /\ Cursor(w) = 2

\* C2: from a fresh state with an N-step TaskPlan the cursor after m
\* completed invocations is min(m, N): not terminal before N invocations,
\* never above N, and invocation N+1 returns without moving it.
C2_ReachesCompleteInNPlusOne ==
    \A w \in Sessions :
        (hist[w].kind \in {"fresh", "graph"} /\ PlanOf(w) # None /\ PlanOf(w)[1].valid) =>
            /\ pc[w] # "raised"
            /\ Cursor(w) = Min(hist[w].invocations, Len(StepsOf(w)))
            /\ Cursor(w) <= Len(StepsOf(w))

\* C2 witness: N = 2 and the third invocation has returned with cursor 2
C2_Witness ==
    \E w \in Sessions :
        /\ hist[w].kind = "fresh"
        /\ Len(StepsOf(w)) = 2
        /\ hist[w].invocations = 3
        /\ pc[w] = "returned"
        /\ Cursor(w) = 2

\* C3: an invocation on a state whose cursor is at or past the number of
\* steps returns a coder_state equal to the one it received and makes no
\* sandbox read, no sandbox write, no model call and emits no event.
C3_TerminalIsNoOp ==
    \A w \in Sessions :
        (pc[w] = "returned" /\ ~hist[w].stepping /\ hist[w].entry_state # None) =>
            /\ state[w].coder_state = hist[w].entry_state
            /\ hist[w].calls = NoCalls

\* C3 witness: a state with a scratch value, already complete, was passed to
\* coder_agent twice
C3_Witness ==
    \E w \in Sessions :
        /\ pc[w] = "returned" /\ ~hist[w].stepping /\ hist[w].entry_state # None
        /\ hist[w].invocations >= 2
        /\ Len(StepsOf(w)) >= 1
        /\ state[w].coder_state[1].current_file_content # None

\* C4: no failure inside a step ends the controller.  An exception leaves
\* coder_agent only when the task_plan data is structurally invalid, before
\* any step is selected; every invocation that selected a step returns with
\* the cursor advanced by exactly 1, whatever failed on the way.
C4_StepFailuresNeverPropagate ==
    \A w \in Sessions :
        /\ pc[w] = "raised" =>
             /\ ~hist[w].stepping
             /\ PlanOf(w) # None /\ ~PlanOf(w)[1].valid
        /\ SteppedAndReturned(w) => Cursor(w) = hist[w].entry_idx + 1

\* C4 witness: existing-content read, primary agent, verification read and
\* fallback write all failed in one invocation, which returned
C4_Witness ==
    \E w \in Sessions :
        /\ SteppedAndReturned(w)
        /\ {"existing_read", "primary", "verify_read", "fallback_write"} \subseteq hist[w].failed
        /\ Cursor(w) = hist[w].entry_idx + 1

\* what the invocation that returned last saw and did
PrimaryRaised(w) == "primary" \in hist[w].failed
FallbackRequested(w) == hist[w].calls.fallback >= 1
\* the verification read returned no content: it raised or returned ""
RereadEmpty(w) == loc[w].test_content = None \/ loc[w].test_content[1] = EmptyStr
\* the verification read raised or returned only whitespace
RereadBlank(w) == loc[w].test_content = None \/ Strip(loc[w].test_content[1]) = EmptyStr

\* C5 as stated: the fallback completion is requested if and only if the
\* primary agent raised or the re-read content is empty.
C5_Original ==
    \A w \in Sessions :
        SteppedAndReturned(w) =>
            (FallbackRequested(w) <=> (PrimaryRaised(w) \/ RereadEmpty(w)))

\* C5 amended: the fallback completion is requested if and only if the
\* primary agent raised, or the re-read raised, or the re-read content is
\* empty once surrounding whitespace is stripped; otherwise there is no
\* fallback model call and no fallback write.
C5_FallbackIffUnconfirmed ==
    \A w \in Sessions :
        SteppedAndReturned(w) =>
            /\ FallbackRequested(w) <=> (PrimaryRaised(w) \/ RereadBlank(w))
            /\ (~PrimaryRaised(w) /\ ~RereadBlank(w)) =>
                   hist[w].calls.fallback = 0 /\ hist[w].calls.fallback_writes = 0

\* C5 witness: the primary returned, the target holds only whitespace, and
\* the fallback was requested
C5_Witness ==
    \E w \in Sessions :
        /\ SteppedAndReturned(w)
        /\ ~PrimaryRaised(w)
        /\ loc[w].test_content = Some(<<" ">>)
        /\ FallbackRequested(w)

\* the content a read of the step's filepath returns now, None when it raises
ReadBack(w) ==
    LET r == read_file(g_session_id, loc[w].task, FALSE)
    IN IF r.ok THEN Some(r.val) ELSE None

NonEmptyCompletion(w) ==
    hist[w].fallback_content # None /\ hist[w].fallback_content[1] # EmptyStr

\* C6 as stated: the primary raised on a step whose target did not exist;
\* then the fallback is invoked, a non-empty completion makes a later read
\* of the filepath non-empty, and the cursor advances by 1.
C6_Original ==
    \A w \in Sessions :
        (SteppedAndReturned(w) /\ PrimaryRaised(w) /\ hist[w].target_absent) =>
            /\ hist[w].calls.fallback = 1
            /\ NonEmptyCompletion(w) => (ReadBack(w) # None /\ ReadBack(w)[1] # EmptyStr)
            /\ Cursor(w) = hist[w].entry_idx + 1

\* C6 amended: the primary raised on a step whose target did not exist; then
\* the fallback is invoked, and when the completion is still non-empty after
\* the clean-up (surrounding whitespace and the fence wrapper removed) and
\* write_file succeeds, a later read of the filepath returns that cleaned,
\* non-empty content; the cursor advances by exactly 1 in every case.
C6_FallbackAfterPrimaryRaise ==
    \A w \in Sessions :
        (SteppedAndReturned(w) /\ PrimaryRaised(w) /\ hist[w].target_absent) =>
            /\ hist[w].calls.fallback = 1
            /\ (NonEmptyCompletion(w) /\ hist[w].calls.fallback_writes = 1
                  /\ CleanFallback(hist[w].fallback_content[1]) # EmptyStr) =>
                   ReadBack(w) = Some(CleanFallback(hist[w].fallback_content[1]))
            /\ Cursor(w) = hist[w].entry_idx + 1

\* C6 witness: primary raised, target absent, a fenced completion was
\* written and reads back without its fence
C6_Witness ==
    \E w \in Sessions :
        /\ SteppedAndReturned(w) /\ PrimaryRaised(w) /\ hist[w].target_absent
        /\ hist[w].fallback_content = Some(<<FENCE, NL, "x", NL, FENCE>>)
        /\ hist[w].calls.fallback_writes = 1
        /\ ReadBack(w) = Some(<<"x">>)

EmptyOrMissingCompletion(w) ==
    hist[w].calls.fallback = 1 /\ ~NonEmptyCompletion(w)

\* C7: in one invocation the primary agent is invoked at most once and the
\* fallback completion requested at most once; an empty or missing
\* completion is followed by no write and no second request, and the cursor
\* still advances by 1.
C7_NoRetryWithinInvocation ==
    \A w \in Sessions :
        /\ hist[w].calls.primary <= 1
        /\ hist[w].calls.fallback <= 1
        /\ EmptyOrMissingCompletion(w) => hist[w].calls.fallback_writes = 0
        /\ (SteppedAndReturned(w) /\ EmptyOrMissingCompletion(w)) =>
               Cursor(w) = hist[w].entry_idx + 1

\* C7 witness: the fallback answered with an empty completion and the
\* invocation returned
C7_Witness ==
    \E w \in Sessions :
        /\ SteppedAndReturned(w)
        /\ hist[w].calls.primary = 1
        /\ hist[w].fallback_content = Some(EmptyStr)
        /\ hist[w].calls.fallback_writes = 0

NoStepAttempted(w) ==
    /\ ~hist[w].stepping
    /\ \A i \in 1..MaxPlanLen : hist[w].attempts[i] = 0

\* C8 as stated: when structured generation fails for the Plan request the
\* plan has files = [], the later stages run with zero implementation steps
\* and no step is ever attempted.
C8_Original ==
    \A w \in Sessions :
        (hist[w].kind = "graph" /\ hist[w].planner_failed) =>
            /\ state[w].plan # None => state[w].plan[1].files = << >>
            /\ StepsOf(w) = << >>
            /\ NoStepAttempted(w)

\* C9: when structured generation fails for the TaskPlan request, or no plan
\* is present, architect_agent returns a TaskPlan with zero steps (with the
\* plan back-reference exactly when there was a plan); the coder invocation
\* that follows returns cursor 0 as terminal with no file written and no
\* event emitted, and should_continue routes to END.
C9_ArchitectFailureEndsAtOnce ==
    \A w \in Sessions :
        (hist[w].architect_default /\ pc[w] # "architect") =>
            /\ PlanOf(w) # None /\ PlanOf(w)[1].valid /\ StepsOf(w) = << >>
            /\ hist[w].kind = "noplan" => PlanOf(w)[1].plan = None
            /\ hist[w].kind = "graph" =>
                 PlanOf(w)[1].plan \in {Some(pl) : pl \in Plans \cup {ErrorPlan}}
            /\ (hist[w].kind = "graph" /\ hist[w].planner_failed) =>
                 PlanOf(w)[1].plan = Some(ErrorPlan)
            /\ pc[w] \in {"coder", "returned", "END"}
            /\ NoStepAttempted(w)
            /\ hist[w].calls = NoCalls
            /\ \A e \in events : e.by # w
            /\ fs = InitFs
            /\ pc[w] \in {"returned", "END"} =>
                 /\ Cursor(w) = 0
                 /\ hist[w].invocations = 1
                 /\ should_continue(state[w]) = "END"

\* C9 witness: the TaskPlan request failed for a real plan and the graph
\* reached END after one coder invocation
C9_Witness ==
    \E w \in Sessions :
        /\ hist[w].kind = "graph" /\ hist[w].architect_default
        /\ ~hist[w].planner_failed
        /\ hist[w].bound
        /\ pc[w] = "END"
        /\ PlanOf(w)[1].plan = Some([name |-> "App", files |-> <<AppPy>>])

\* ------------------------------------------------------ two sessions at once
\* main.py 192-220 starts one run_agent_background per request on a worker
\* thread; two sessions run side by side, each on a one-step plan
OneStepState == StateDict(None, Some(TaskPlanData(<<AppPy>>, None)), None)

InitConc ==
    /\ InitFor(Sessions)
    /\ \A w \in Sessions : driver[w] = "direct" /\ state[w] = OneStepState

\* the steps of a session from its binding to the verification that follows
\* the primary attempt (graph.py 139-211), with an agent that makes no tool
\* call of its own
NextConc ==
    \E w \in Sessions :
        \/ create_session_agent(w)
        \/ EmitEvent(w)
        \/ CoderEntry(w)
        \/ ProbeWrite(w)
        \/ ProbeRead(w)
        \/ ReadExisting(w)
        \/ ReactInvoke(w)
        \/ AgentStop(w)
        \/ AgentRaise(w)
        \/ ListAfter(w)

SpecConc == InitConc /\ [][NextConc]_vars

\* C10 as stated: every sandbox call issued by a session's pipeline resolves
\* under that session's project root, and every file event it causes is
\* delivered with that session's id, in every interleaving of two sessions.
C10_Original ==
    /\ \A c \in io_trace : c.sid = c.by
    /\ \A e \in events : e.sid = e.by

\* --------------------------------------------------- the sandbox called directly
\* the module globals, the file system and the workers before a run
InitBase(active, kind, d) ==
    /\ g_session_id = None
    /\ g_event_emitter = None
    /\ fs = InitFs
    /\ events = {}
    /\ io_trace = {}
    /\ pc = [w \in Sessions |-> IF w \notin active THEN "off"
                                 ELSE IF kind = "server" THEN "request" ELSE "new"]
    /\ driver = [w \in Sessions |-> IF w \in active THEN d ELSE "graph"]
    /\ cs = [w \in Sessions |-> NoCs]
    /\ loc = [w \in Sessions |-> NoLoc]
    /\ pend = [w \in Sessions |-> NoPend]
    /\ tool = [w \in Sessions |-> NoTool]
    /\ sessions = [w \in Sessions |-> NoSession]

\* workers of one kind, each starting from the empty state dict
InitKind(active, kind, d) ==
    /\ InitBase(active, kind, d)
    /\ state = [w \in Sessions |-> EmptyState]
    /\ hist = [w \in Sessions |-> NewHist(IF w \in active THEN kind ELSE "graph", 0)]

\* one caller makes up to MaxCalls tool calls, bound to session A or unbound
InitSandbox == InitKind({"A"}, "tools", "direct")

NextSandbox ==
    \E w \in Sessions :
        \/ create_session_agent(w)
        \/ StartUnbound(w)
        \/ ToolRequest(w)
        \/ ToolWrite(w)
        \/ EmitEvent(w)
        \/ ToolRead(w)
        \/ ToolList(w)
        \/ ToolCwd(w)

SpecSandbox == InitSandbox /\ [][NextSandbox]_vars

\* the path resolves to neither the project root of the session nor a
\* descendant of it
Escapes(path, sid) ==
    LET root == get_project_root(sid)
        p == Resolve(root \o path)
    IN ~(Len(root) <= Len(p) /\ \A i \in 1..Len(root) : p[i] = root[i])

PathCall(w) == pc[w] = "tool_call" /\ tool[w].op \in {"write", "read", "list"}

\* C11: a write_file, read_file or list_files call of a bound session whose
\* path resolves outside the project root fails with an error, and the step
\* that makes the call changes no file and no directory and emits no event.
C11_EscapingCallDoesNoIO ==
    [][\A w \in Sessions :
          (PathCall(w) /\ g_session_id # None /\ Escapes(tool[w].path, g_session_id[1]))
          => /\ fs' = fs
             /\ events' = events
             /\ pc'[w] = "tool_idle"
             /\ ~tool'[w].ok
             /\ tool'[w].err = "ValueError"]_vars

\* a write aimed at the root of the other session has failed after an
\* earlier write went through
C11_Witness ==
    \E w \in Sessions :
        /\ pc[w] = "tool_idle"
        /\ g_session_id = Some(w)
        /\ tool[w].op = "write"
        /\ tool[w].path = <<"..", "B", "a">>
        /\ ~tool[w].ok
        /\ tool[w].last_write # None
        /\ fs[get_project_root("B")] = NoFile

\* C12: every file event the sink has received names a path that resolves
\* inside the project root of the session it is tagged with, and the file
\* written at that path under that root is there when the event arrives.
C12_Original ==
    \A e \in events :
        e.type = "file" =>
            /\ ~Escapes(e.path, e.sid)
            /\ fs[Resolve(get_project_root(e.sid) \o e.path)] \notin {NoFile, IsDir}

\* a tool call of the bound session w has returned or raised
CallDone(w, op) ==
    /\ pc[w] = "tool_idle"
    /\ tool[w].n > 0
    /\ tool[w].op = op
    /\ g_session_id = Some(w)

ResolvedFor(w, path) == Resolve(get_project_root(w) \o path)

C14_UnboundCallsFail ==
    [][\A w \in Sessions :
          (pc[w] = "tool_call" /\ g_session_id = None)
          => /\ fs' = fs
             /\ events' = events
             /\ pc'[w] = "tool_idle"
             /\ ~tool'[w].ok
             /\ tool'[w].err = "ValueError"]_vars

\* an unbound caller has made two calls, the second for the working
\* directory, and nothing was written or emitted
C14_Witness ==
    \E w \in Sessions :
        /\ pc[w] = "tool_idle"
        /\ g_session_id = None
        /\ tool[w].n = 2
        /\ tool[w].op = "cwd"
        /\ tool[w].err = "ValueError"
        /\ tool[w].last_write = None
        /\ fs = InitFs
        /\ events = {}

\* C15: an emitter that raises while a file event is delivered does not
\* reach the controller state.  The invocation in which it happened never
\* ends with an exception; it returns with the cursor advanced by exactly 1
\* and the task_plan it started from, and every file whose event was being
\* delivered is still in the workspace.
C15_EmitterFailureIsContained ==
    \A w \in Sessions :
        hist[w].emit_raised # {} =>
            /\ pc[w] # "raised"
            /\ \A path \in hist[w].emit_raised :
                  g_session_id # None
                  /\ fs[ResolvedFor(g_session_id[1], path)] \notin {NoFile, IsDir}
            /\ SteppedAndReturned(w) =>
                  /\ Cursor(w) = hist[w].entry_idx + 1
                  /\ PlanOf(w) = hist[w].entry_plan

\* the emitter raised on the event of the fallback write, and the invocation
\* returned with the written file in place
C15_Witness ==
    \E w \in Sessions :
        /\ SteppedAndReturned(w)
        /\ hist[w].calls.fallback_writes = 1
        /\ AppPy \in hist[w].emit_raised
        /\ fs[ResolvedFor(w, AppPy)] = <<"x">>
        /\ Cursor(w) = hist[w].entry_idx + 1

\* C17: coder_agent never mutates the TaskPlan.  Whenever an invocation that
\* found a task_plan has returned, the task_plan of the returned coder_state
\* (steps and plan back-reference) equals the one it started from and
\* current_file_content is the value it received (None when it received no
\* coder_state).
C17_TaskPlanNeverMutated ==
    \A w \in Sessions :
        (pc[w] \in {"returned", "END"} /\ hist[w].entry_plan # None) =>
            /\ state[w].coder_state # None
            /\ Some(state[w].coder_state[1].task_plan) = hist[w].entry_plan
            /\ state[w].coder_state[1].current_file_content = hist[w].entry_scratch
            /\ state[w].task_plan = None

\* a resumed state with a scratch value went through a step in which files
\* were written, and the invocation returned
C17_Witness ==
    \E w \in Sessions :
        /\ SteppedAndReturned(w)
        /\ hist[w].calls.writes
        /\ hist[w].entry_scratch = Some(<<"x">>)
        /\ Len(hist[w].entry_plan[1].implementation_steps) = 2

Max(a, b) == IF a > b THEN a ELSE b

\* C20: should_continue agrees with the terminal check of coder_agent.  On
\* every state coder_agent returned it answers coder exactly when the cursor
\* is below the number of steps, which is when the terminal check fails;
\* so a graph run that reaches END has run the coder node max(N, 1) times,
\* and the node is entered in the terminal state only when N = 0, once.
C20_ShouldContinueAgrees ==
    \A w \in Sessions :
        /\ pc[w] = "returned" =>
              /\ should_continue(state[w]) = "coder" <=> Cursor(w) < Len(StepsOf(w))
              /\ should_continue(state[w]) = "END"
                    <=> AllStepsComplete(Cursor(w), StepsOf(w))
        /\ driver[w] = "graph" =>
              /\ pc[w] = "END" =>
                    /\ hist[w].invocations = Max(Len(StepsOf(w)), 1)
                    /\ Cursor(w) = Len(StepsOf(w))
              /\ hist[w].terminal_entries > 0 =>
                    /\ hist[w].terminal_entries = 1
                    /\ Len(StepsOf(w)) = 0

\* a graph run over a two-step plan reached END after two coder invocations,
\* none of them terminal
C20_Witness ==
    \E w \in Sessions :
        /\ driver[w] = "graph"
        /\ pc[w] = "END"
        /\ Len(StepsOf(w)) = 2
        /\ hist[w].invocations = 2
        /\ hist[w].terminal_entries = 0

\* ------------------------------------------------------ a session of the server
\* one request to the server: run_project, then run_agent_background
InitServer == InitKind({"A"}, "server", "graph")

NextServer ==
    \E w \in Sessions :
        \/ run_project(w)
        \/ ImportAgent(w)
        \/ create_session_agent(w)
        \/ MarkRunning(w)
        \/ EmitEvent(w)
        \/ planner_agent(w)
        \/ architect_agent(w)
        \/ CoderEntry(w)
        \/ ProbeWrite(w)
        \/ ProbeRead(w)
        \/ ReadExisting(w)
        \/ ReactInvoke(w)
        \/ AgentWrite(w)
        \/ AgentRead(w)
        \/ AgentList(w)
        \/ AgentCwd(w)
        \/ AgentStop(w)
        \/ AgentRaise(w)
        \/ ListAfter(w)
        \/ VerifyRead(w)
        \/ FallbackInvoke(w)
        \/ FallbackWrite(w)
        \/ FallbackVerify(w)
        \/ Increment(w)
        \/ ShouldContinue(w)
        \/ FinishRun(w)
        \/ HandleError(w)

SpecServer == InitServer /\ [][NextServer]_vars

\* the step that returned last produced nothing: the primary agent raised
\* and the fallback completion was empty or missing
SilentStepFailure(w) ==
    /\ hist[w].stepping
    /\ "primary" \in hist[w].failed
    /\ hist[w].calls.fallback_writes = 0
    /\ EmptyOrMissingCompletion(w)

ResumePlans == {TaskPlanData(<<AppPy>>, None), TaskPlanData(<<Escaping, AppPy>>, None)}
OuterPlans == {None, Some(TaskPlanData(<<TestTxt>>, None)), Some(InvalidTaskPlan)}

\* a caller passes coder_agent a coder_state with cursor k, as the dict an
\* earlier invocation returned or as the CoderState object it stands for
SavedStates ==
    {[StateDict(None, outer, Some(CoderStateDump(tp, k, None))) EXCEPT !.cs_form = form] :
        tp \in ResumePlans, k \in 0..MaxSteps, outer \in OuterPlans,
        form \in {"dict", "object"}}

InitResume ==
    /\ InitBase({"A"}, "resumed", "direct")
    /\ \E st \in SavedStates :
         /\ Resumable(st)
         /\ state = [w \in Sessions |-> IF w = "A" THEN st ELSE EmptyState]
         /\ hist = [w \in Sessions |->
                       IF w = "A" THEN NewHist("resumed", DoneOf(st))
                       ELSE NewHist("graph", 0)]

\* one invocation of coder_agent on the saved state
NextResume ==
    \E w \in Sessions :
        \/ create_session_agent(w)
        \/ StartUnbound(w)
        \/ EmitEvent(w)
        \/ CoderEntry(w)
        \/ ProbeWrite(w)
        \/ ProbeRead(w)
        \/ ReadExisting(w)
        \/ ReactInvoke(w)
        \/ AgentWrite(w)
        \/ AgentRead(w)
        \/ AgentList(w)
        \/ AgentCwd(w)
        \/ AgentStop(w)
        \/ AgentRaise(w)
        \/ ListAfter(w)
        \/ VerifyRead(w)
        \/ FallbackInvoke(w)
        \/ FallbackWrite(w)
        \/ FallbackVerify(w)
        \/ Increment(w)

SpecResume == InitResume /\ [][NextResume]_vars

\* C18 as stated: an invocation that receives a coder_state with cursor k
\* below the number of its steps, as a dict or as the CoderState object,
\* with or without a top-level task_plan beside it, attempts steps[k] of the
\* task_plan inside that coder_state and returns that task_plan with cursor
\* k + 1.
C18_Original ==
    \A w \in Sessions :
        (/\ pc[w] = "returned"
         /\ hist[w].entry_state # None
         /\ hist[w].entry_state[1].current_step_idx
               < Len(hist[w].entry_state[1].task_plan.implementation_steps))
        => /\ hist[w].stepping
           /\ hist[w].attempts[hist[w].entry_state[1].current_step_idx + 1] = 1
           /\ PlanOf(w) = Some(hist[w].entry_state[1].task_plan)
           /\ Cursor(w) = hist[w].entry_state[1].current_step_idx + 1

\* ------------------------------------------------------------ the test script
\* test_agent.py 19-23: agent.invoke with recursion_limit 10 and no session
\* bound, so that every sandbox call of the run fails
InitScript == InitKind({"A"}, "script", "graph")

NextScript ==
    \E w \in Sessions :
        \/ StartUnbound(w)
        \/ planner_agent(w)
        \/ architect_agent(w)
        \/ CoderEntry(w)
        \/ ProbeWrite(w)
        \/ ReadExisting(w)
        \/ ReactInvoke(w)
        \/ AgentWrite(w)
        \/ AgentStop(w)
        \/ AgentRaise(w)
        \/ ListAfter(w)
        \/ VerifyRead(w)
        \/ FallbackInvoke(w)
        \/ FallbackWrite(w)
        \/ Increment(w)
        \/ ShouldContinue(w)
        \/ RecursionLimitReached(w)

SpecScript == InitScript /\ [][NextScript]_vars

\* the supersteps a complete run over the plan of w takes: planner,
\* architect, and the coder node once per step or once for an empty plan
SuperstepsNeeded(w) == 2 + Max(Len(StepsOf(w)), 1)

CrashPlans == {TaskPlanData(<<AppPy>>, None), TaskPlanData(<<Escaping, AppPy>>, None)}

InitCrash ==
    /\ InitBase({"A"}, "fresh", "direct")
    /\ \E tp \in CrashPlans :
         state = [w \in Sessions |-> IF w = "A" THEN StateDict(None, Some(tp), None)
                                     ELSE EmptyState]
    /\ hist = [w \in Sessions |-> NewHist(IF w = "A" THEN "fresh" ELSE "graph", 0)]

NextCrash ==
    \E w \in Sessions :
        \/ create_session_agent(w)
        \/ StartUnbound(w)
        \/ EmitEvent(w)
        \/ CoderEntry(w)
        \/ ProbeWrite(w)
        \/ ProbeRead(w)
        \/ ReadExisting(w)
        \/ ReactInvoke(w)
        \/ AgentWrite(w)
        \/ AgentStop(w)
        \/ AgentRaise(w)
        \/ ListAfter(w)
        \/ VerifyRead(w)
        \/ FallbackInvoke(w)
        \/ FallbackWrite(w)
        \/ FallbackVerify(w)
        \/ Increment(w)
        \/ Reinvoke(w)
        \/ Crash(w)

SpecCrash == InitCrash /\ [][NextCrash]_vars

\* C21: a worker stopped inside an invocation and resumed from the last
\* returned state attempts the interrupted step next; no step is skipped
\* (every step below the cursor was attempted, none beyond the one in
\* flight), an invocation that returns moves the cursor by one, and after m
\* returned invocations the cursor is min(m, N), so it reaches N after the
\* remaining ones.
C21_CrashLeavesSessionResumable ==
    \A w \in Sessions :
        hist[w].kind = "fresh" =>
            /\ pc[w] # "raised"
            /\ (hist[w].resume_from # None /\ InFlight(w)) =>
                  /\ hist[w].entry_idx = hist[w].resume_from[1]
                  /\ loc[w].task = StepsOf(w)[hist[w].resume_from[1] + 1]
            /\ hist[w].resume_from # None => Cursor(w) = hist[w].resume_from[1]
            /\ \A i \in 1..MaxPlanLen :
                  /\ i <= Cursor(w) => hist[w].attempts[i] >= 1
                  /\ i > Cursor(w) + 1 => hist[w].attempts[i] = 0
                  /\ hist[w].attempts[i] <= 1 + hist[w].crashes
            /\ SteppedAndReturned(w) => Cursor(w) = hist[w].entry_idx + 1
            /\ Cursor(w) = Min(hist[w].invocations, Len(StepsOf(w)))

\* C21 witness: the second step of a two-step plan was interrupted, attempted
\* again and returned, and the cursor is at N
C21_Witness ==
    \E w \in Sessions :
        /\ hist[w].kind = "fresh"
        /\ hist[w].crashes >= 1
        /\ Len(StepsOf(w)) = 2
        /\ hist[w].attempts[2] = 2
        /\ SteppedAndReturned(w)
        /\ Cursor(w) = 2

\* ------------------------------------------------- the fallback clean-up alone
\* one bound step on app.py whose primary agent raises, so that the fallback
\* completion, any text of up to MaxTextLen tokens, is cleaned and written
InitClean ==
    /\ InitBase({"A"}, "clean", "direct")
    /\ state = [w \in Sessions |->
                   IF w = "A" THEN StateDict(None, Some(TaskPlanData(<<AppPy>>, None)), None)
                   ELSE EmptyState]
    /\ hist = [w \in Sessions |-> NewHist(IF w = "A" THEN "clean" ELSE "graph", 0)]

NextClean ==
    \E w \in Sessions :
        \/ create_session_agent(w)
        \/ EmitEvent(w)
        \/ CoderEntry(w)
        \/ ProbeWrite(w)
        \/ ProbeRead(w)
        \/ ReadExisting(w)
        \/ ReactInvoke(w)
        \/ AgentRaise(w)
        \/ VerifyRead(w)
        \/ FallbackInvoke(w)
        \/ FallbackWrite(w)
        \/ FallbackVerify(w)
        \/ Increment(w)

SpecClean == InitClean /\ [][NextClean]_vars

\* the fallback of worker w wrote a completion and the target reads back
FallbackWrote(w) ==
    /\ hist[w].kind = "clean"
    /\ hist[w].calls.fallback_writes = 1
    /\ hist[w].fallback_content # None
    /\ ReadBack(w) # None

\* the text is one opening fence line, inner lines, one closing fence line
Wrapped(text) ==
    LET lines == SplitNL(text, << >>) IN
    /\ Len(lines) >= 2
    /\ StartsWithFence(lines[1])
    /\ lines[Len(lines)] = <<FENCE>>

\* b is a run of consecutive tokens of a
IsPartOf(b, a) == \E i \in 1..(Len(a) + 1), j \in 0..Len(a) : b = SubSeq(a, i, j)

\* C22 as stated: the fallback writes the completion with exactly one fence
\* wrapper removed when present and nothing else removed: as it is when it
\* does not begin with a fence or is not wrapped, and without the opening
\* and the closing fence line when it is wrapped.
C22_Original ==
    \A w \in Sessions :
        FallbackWrote(w) =>
            LET text == hist[w].fallback_content[1]
                content == ReadBack(w)[1]
                lines == SplitNL(text, << >>)
            IN /\ ~StartsWithFence(text) => content = text
               /\ Wrapped(text) => content = JoinNL(SubSeq(lines, 2, Len(lines) - 1))
               /\ ~Wrapped(text) => content = text

\* C22 amended: the fallback writes the completion stripped of surrounding
\* whitespace; when the stripped completion begins with a fence, its whole
\* first line is dropped, and its last line too when that line is a bare
\* fence; the lines in between, inner fence lines included, are kept as they
\* are.  Nothing is added or reordered.
C22_FallbackContentIsCleaned ==
    \A w \in Sessions :
        FallbackWrote(w) =>
            LET text == hist[w].fallback_content[1]
                content == ReadBack(w)[1]
                c == Strip(text)
                lines == SplitNL(c, << >>)
                n == Len(lines)
                last == IF n >= 2 /\ Strip(lines[n]) = <<FENCE>> THEN n - 1 ELSE n
            IN /\ ~StartsWithFence(c) => content = c
               /\ StartsWithFence(c) => content = JoinNL(SubSeq(lines, 2, last))
               /\ IsPartOf(content, text)

\* C22 witness: a completion with a blank line before an opening fence line
\* that carries a tag and has no closing fence was written as its last line
C22_Witness ==
    \E w \in Sessions :
        /\ FallbackWrote(w)
        /\ hist[w].fallback_content = Some(<<NL, FENCE, "x", NL, "x">>)
        /\ ReadBack(w) = Some(<<"x">>)

\* ------------------------------------------------------ the probe file test.txt
\* C23 as stated: an invocation whose primary agent wrote nothing and whose
\* fallback answered with an empty completion writes no file, emits no file
\* event, and leaves the workspace as it found it.
C23_Original ==
    \A w \in Sessions :
        (/\ SteppedAndReturned(w)
         /\ hist[w].agent_wrote = {}
         /\ hist[w].fallback_content = Some(EmptyStr))
        => /\ ~hist[w].calls.writes
           /\ ~hist[w].calls.emits
           /\ hist[w].kind = "fresh" /\ hist[w].invocations = 1 => fs = InitFs

\* plans whose target has content before the step is attempted: the probe
\* file itself, and a file an earlier step of the plan wrote
ProbePlans == {TaskPlanData(<<TestTxt>>, None), TaskPlanData(<<AppPy, AppPy>>, None)}

InitProbe ==
    /\ InitBase({"A"}, "probe", "direct")
    /\ \E tp \in ProbePlans :
         state = [w \in Sessions |-> IF w = "A" THEN StateDict(None, Some(tp), None)
                                     ELSE EmptyState]
    /\ hist = [w \in Sessions |-> NewHist(IF w = "A" THEN "probe" ELSE "graph", 0)]

NextProbe ==
    \E w \in Sessions :
        \/ create_session_agent(w)
        \/ StartUnbound(w)
        \/ EmitEvent(w)
        \/ CoderEntry(w)
        \/ ProbeWrite(w)
        \/ ProbeRead(w)
        \/ ReadExisting(w)
        \/ ReactInvoke(w)
        \/ AgentWrite(w)
        \/ AgentRead(w)
        \/ AgentStop(w)
        \/ AgentRaise(w)
        \/ ListAfter(w)
        \/ VerifyRead(w)
        \/ FallbackInvoke(w)
        \/ FallbackWrite(w)
        \/ FallbackVerify(w)
        \/ Increment(w)
        \/ Reinvoke(w)

SpecProbe == InitProbe /\ [][NextProbe]_vars

\* the read of the target before the attempt returned content that is not blank
HadContent(w) == Strip(loc[w].existing_content) # EmptyStr

\* the invocation of w that returned last attempted a step whose primary
\* agent returned normally without writing the target
PrimaryLeftTarget(w) ==
    /\ SteppedAndReturned(w)
    /\ loc[w].success
    /\ loc[w].task \notin hist[w].agent_wrote

\* C24 as stated: when the target had non-empty content as the step began
\* and the primary agent returned without writing it, the step is not
\* confirmed and the fallback is entered.
C24_Original ==
    \A w \in Sessions :
        (PrimaryLeftTarget(w) /\ HadContent(w)) =>
            hist[w].calls.fallback >= 1

\* C24 amended: a step is confirmed when the primary agent returned and the
\* re-read target is not blank, whoever wrote it.  When the target had
\* non-blank content as the step began (written by an earlier step, or by
\* the probe write when the target is test.txt) and the primary agent
\* returned without writing it, the re-read returns that content and no
\* fallback is requested unless the re-read raises; when the read before
\* the attempt returned blank or no content the fallback is requested.  The
\* cursor moves on by one.
C24_ConfirmedByContentAlone ==
    \A w \in Sessions :
        PrimaryLeftTarget(w) =>
            /\ (HadContent(w) /\ "verify_read" \notin hist[w].failed) =>
                  /\ loc[w].test_content = Some(loc[w].existing_content)
                  /\ hist[w].calls.fallback = 0
                  /\ hist[w].calls.fallback_writes = 0
            /\ (~HadContent(w) /\ "existing_read" \notin hist[w].failed) =>
                  hist[w].calls.fallback = 1
            /\ Cursor(w) = hist[w].entry_idx + 1

\* C24 witness: the target is test.txt, absent before the invocation; the
\* probe wrote it, the primary agent returned without a write, and the step
\* was confirmed without the fallback
C24_Witness ==
    \E w \in Sessions :
        /\ PrimaryLeftTarget(w)
        /\ loc[w].task = TestTxt
        /\ hist[w].target_absent
        /\ hist[w].agent_wrote = {}
        /\ loc[w].existing_content = HelloWorldTest
        /\ hist[w].calls.fallback = 0

\* --------------------------------------------------------- no task_plan at all
\* C25: coder_agent invoked with neither a top-level task_plan nor a
\* coder_state raises nothing, makes no sandbox call and writes no file,
\* and returns a coder_state with zero steps and cursor 999; should_continue
\* answers END for it, and a further invocation returns the same state, again
\* without a step, a call or a write.
C25_NoTaskPlanIsTerminal ==
    \A w \in Sessions :
        hist[w].kind = "empty" =>
            /\ pc[w] # "raised"
            /\ NoStepAttempted(w)
            /\ hist[w].calls = NoCalls
            /\ fs = InitFs /\ events = {} /\ io_trace = {}
            /\ pc[w] = "returned" =>
                  /\ state[w].coder_state # None
                  /\ Cursor(w) = ErrorCursor
                  /\ StepsOf(w) = << >>
                  /\ should_continue(state[w]) = "END"
            /\ (pc[w] = "returned" /\ hist[w].invocations >= 2) =>
                  /\ hist[w].entry_idx = ErrorCursor
                  /\ state[w].coder_state = hist[w].entry_state

\* C25 witness: the state returned for the empty dict was passed to
\* coder_agent again and came back with cursor 999
C25_Witness ==
    \E w \in Sessions :
        /\ hist[w].kind = "empty"
        /\ state[w].task_plan = None
        /\ pc[w] = "returned"
        /\ hist[w].invocations >= 2
        /\ Cursor(w) = ErrorCursor

\* --------------------------------------- a server session with status events
\* a session of the server whose pipeline also reports done and error
\* events, as the event sink of the specification receives them; the
\* primary agent returns or raises without tool calls
NextEvents ==
    \E w \in Sessions :
        \/ run_project(w)
        \/ ImportAgent(w)
        \/ create_session_agent(w)
        \/ MarkRunning(w)
        \/ EmitEvent(w)
        \/ SinkEvent(w)
        \/ planner_agent(w)
        \/ architect_agent(w)
        \/ CoderEntry(w)
        \/ ProbeWrite(w)
        \/ ProbeRead(w)
        \/ ReadExisting(w)
        \/ ReactInvoke(w)
        \/ AgentStop(w)
        \/ AgentRaise(w)
        \/ ListAfter(w)
        \/ VerifyRead(w)
        \/ FallbackInvoke(w)
        \/ FallbackWrite(w)
        \/ FallbackVerify(w)
        \/ Increment(w)
        \/ ShouldContinue(w)
        \/ FinishRun(w)
        \/ HandleError(w)

SpecEvents == InitServer /\ [][NextEvents]_vars

\* C26: a session in the table has status starting, running, completed or
\* error; it is starting from its creation until run_agent_background marks
\* it running; once run_agent_background has finished it is completed or
\* error; and a session in error has its error field set.
C26_StatusLifecycle ==
    \A w \in Sessions :
        hist[w].kind = "server" =>
            /\ pc[w] = "request" <=> sessions[w].status = "none"
            /\ pc[w] # "request" =>
                  sessions[w].status \in {"starting", "running", "completed", "error"}
            /\ pc[w] \in {"import", "new", "bind", "bg_error", "mark_running"} =>
                  sessions[w].status = "starting"
            /\ pc[w] = "finished" => sessions[w].status \in {"completed", "error"}
            /\ sessions[w].status = "error" => sessions[w].error # None

\* C26 witness: the run raised and run_agent_background finished through its
\* except branch, with status error and the error recorded
C26_Witness ==
    \E w \in Sessions :
        /\ hist[w].kind = "server"
        /\ pc[w] = "finished"
        /\ sessions[w].status = "error"
        /\ sessions[w].error = Some("str(e)")
        /\ sessions[w].result = None

\* C28 as stated: the status message sent at the end of
\* run_agent_background says completed only when the stored status is
\* completed, also after an error event during a run that returned.
C28_Original ==
    \A w \in Sessions :
        (pc[w] = "finished" /\ sessions[w].notified = Some("completed")) =>
            sessions[w].status = "completed"

\* ---------------------------------------------------- the file endpoints alone
\* session A is in the table, its run over; a client sends up to MaxCalls
\* requests for session A or for a session that is not in the table
InitFiles ==
    /\ g_session_id = None
    /\ g_event_emitter = None
    /\ fs = InitFs
    /\ events = {}
    /\ io_trace = {}
    /\ pc = [w \in Sessions |-> IF w = "A" THEN "ep_idle" ELSE "off"]
    /\ driver = [w \in Sessions |-> "graph"]
    /\ state = [w \in Sessions |-> EmptyState]
    /\ cs = [w \in Sessions |-> NoCs]
    /\ loc = [w \in Sessions |-> NoLoc]
    /\ pend = [w \in Sessions |-> NoPend]
    /\ tool = [w \in Sessions |-> NoRequest]
    /\ sessions = [w \in Sessions |->
                      IF w = "A" THEN [NoSession EXCEPT !.status = "completed"]
                      ELSE NoSession]
    /\ hist = [w \in Sessions |-> NewHist(IF w = "A" THEN "files" ELSE "graph", 0)]

NextFiles ==
    \E w \in Sessions :
        \/ FileRequest(w)
        \/ get_file_content(w)
        \/ update_file_content(w)

SpecFiles == InitFiles /\ [][NextFiles]_vars

\* the request of w was answered
Answered(w) == pc[w] = "ep_idle" /\ tool[w].op \in {"GET", "POST"}

\* C27 as stated: a request for a session of the table whose path resolves
\* to neither the project directory nor a descendant of it, a directory
\* beside it whose name begins with the session id included, is answered
\* with status 403, and the handler opens no file; no file is ever opened
\* outside the project directory.
C27_Original ==
    \A w \in Sessions :
        Answered(w) =>
            /\ (sessions[tool[w].sid].status # "none" /\ Escapes(tool[w].path, tool[w].sid)) =>
                  /\ tool[w].status = 403
                  /\ tool[w].opened = None
            /\ tool[w].opened # None =>
                  IsPrefix(Resolve(get_session_project_path(tool[w].sid)), tool[w].opened[1])
====
